---------------------------- MODULE Spec2Model ----------------------------
(*************************************************************************)
(* Model of POC/poc_scraper/poc_scraper.py: the Translator Adapter       *)
(* (GroqTranslator.translate_text), the Extractor                        *)
(* (extract_structured_job_info), the record translation orchestrator    *)
(* (translate_structured_job_info), the batch loops                      *)
(* (stress_test_translation, scrape_multiple_pages,                      *)
(* run_large_scale_translation_test) and the functions that launch a     *)
(* browser session (get_full_job_description_with_selenium,              *)
(* diagnose_page_structure, process_single_structured_job).              *)
(*                                                                       *)
(* A Python str is modelled as a sequence of one-character strings, so   *)
(* that strip, split, join, replace, slicing and regular-expression      *)
(* search are computed character by character as the code computes them. *)
(*************************************************************************)
EXTENDS Integers, Sequences, FiniteSets, Bags, TLC

VARIABLES
    \* ---- GroqTranslator.translate_text, one invocation ----
    tt_pc,          \* "idle" | "requesting" | "returned"
    tt_call,        \* the argument shape of the call expression
    tt_text,        \* the text argument
    tt_ret,         \* the value returned to the caller
    tt_requests,    \* remote API requests issued during the invocation
    tt_reported,    \* TRUE once "Translation error: ..." was printed
    tt_raised,      \* exception that left translate_text ("none" if none)
    tt_reply,       \* what the remote API answered to the request
    \* ---- extract_structured_job_info, one invocation ----
    page,           \* the parsed page (soup) and its url
    ex_pc,          \* the step the function is at
    ex_ret,         \* "pending" | "None" | "job_info"
    ex_steps,       \* the extraction steps performed so far
    job_info,       \* the record being built
    seg_lines,      \* lines = content_text.split("\n")
    seg_idx,        \* position of the for loop in lines
    current_section,
    current_content,
    sections,
    \* ---- translate_structured_job_info, one invocation ----
    tr_pc,          \* the step the function is at
    job_before,     \* the value of the argument job_info when the call began
    job_obj,        \* the dict job_info with the nested dicts it refers to
    translated_own, \* the top-level entries only translated_info holds
    tr_idx,         \* position of the for loop over features or sections
    translated_key, \* the local translated_key
    content_to_translate,
    translated_sections,
    tr_passed,      \* the texts handed to the Translator Adapter, in order
    tr_requests,    \* remote API requests issued during the call
    tr_printed,     \* the error lines printed during the call
    \* ---- the batch loops: stress_test_translation, scrape_multiple_pages,
    \* ---- run_large_scale_translation_test, one invocation ----
    bt_fn,          \* which of the three functions runs
    bt_pc,          \* the step the function is at
    bt_limit,       \* num_pages_to_scrape or max_jobs_to_translate
    bt_page,        \* page_num
    bt_cards,       \* job_cards of the page fetched last
    bt_idx,         \* position of the for loop in job_cards
    bt_count,       \* translated_count / total_jobs_translated / translated_jobs_count
    bt_log,         \* the fetches, translation attempts and sleeps so far, in order
    \* ---- the functions that launch a browser session:
    \* ---- get_full_job_description_with_selenium, diagnose_page_structure,
    \* ---- process_single_structured_job, one invocation ----
    ss_fn,          \* which of the three functions runs
    ss_pc,          \* the step the function is at
    driver,         \* "None" | "open" | "closed" (after driver.quit())
    ss_log          \* the driver operations and the outputs so far, in order

adapterVars == <<tt_pc, tt_call, tt_text, tt_ret, tt_requests, tt_reported, tt_raised,
                 tt_reply>>

extractVars == <<page, ex_pc, ex_ret, ex_steps, job_info, seg_lines, seg_idx,
                 current_section, current_content, sections>>

recordVars == <<tr_pc, job_before, job_obj, translated_own, tr_idx, translated_key,
                content_to_translate, translated_sections, tr_passed, tr_requests,
                tr_printed>>

batchVars == <<bt_fn, bt_pc, bt_limit, bt_page, bt_cards, bt_idx, bt_count, bt_log>>

sessionVars == <<ss_fn, ss_pc, driver, ss_log>>

vars == <<adapterVars, extractVars, recordVars, batchVars, sessionVars>>

(*************************************************************************)
(* Bounds of the model.                                                  *)
(*************************************************************************)
MaxTextLen == 3

MaxNodes == 3

MaxCompanyChunks == 4

MaxBlocks == 2

\* How far the longest section body exceeds the translation limit.
ExtraLen == 1

\* Pages a batch run may go through.
MaxPages == 3

\* The largest max_jobs_to_translate.
MaxJobs == 2

(*************************************************************************)
(* Characters and Python string primitives.                              *)
(*************************************************************************)
MIDDOT == "·"

\* Characters str.strip() removes (ASCII whitespace).
Whitespace == {" ", "\t", "\n", "\r", "\f"}

NoValue == <<"NoValue">>

SetMin(S) == CHOOSE x \in S : \A y \in S : x <= y

SetMax(S) == CHOOSE x \in S : \A y \in S : x >= y

\* str.strip(): s without its leading and trailing whitespace.
Strip(s) ==
    LET keep == {i \in 1..Len(s) : s[i] \notin Whitespace}
    IN  IF keep = {} THEN <<>> ELSE SubSeq(s, SetMin(keep), SetMax(keep))

\* All sequences over alphabet A of length at most n.
SeqsUpTo(A, n) == UNION {[1..k -> A] : k \in 0..n}

(*************************************************************************)
(* GroqTranslator.translate_text                                         *)
(*************************************************************************)
\* def translate_text(self, text, source_lang="nl", target_lang="en")
TranslateTextParams == <<"text", "source_lang", "target_lang">>

\* Python argument binding against the signature: no unknown keyword, no
\* parameter given twice, the required parameter text supplied.
Binds(call) ==
    LET byPosition == {TranslateTextParams[i] : i \in 1..call.positional}
    IN  /\ call.positional <= Len(TranslateTextParams)
        /\ call.keywords \subseteq {TranslateTextParams[i] : i \in 1..Len(TranslateTextParams)}
        /\ call.keywords \cap byPosition = {}
        /\ "text" \in byPosition \cup call.keywords

ShortCircuitsEmptyOnly(text) == text = <<>>

\* if not text or not text.strip(): return text
ShortCircuits(text) == text = <<>> \/ Strip(text) = <<>>

\* What the remote collaborator can do with one request: a completion whose
\* first choice carries content, or one of the failures.
ReplyFailures == {"transport_error", "api_error", "empty_choices", "null_choices", "null_content"}

ResponseContents == { <<"h","i">>, <<" ","h","i","\n">>, <<" ">>, <<>> }

Replies ==
    {[kind |-> "ok", content |-> c] : c \in ResponseContents}
    \cup {[kind |-> k, content |-> <<>>] : k \in ReplyFailures}

NoReply == [kind |-> "none", content |-> <<>>]

\* As TranslateReturn, with an except clause that catches the API's own
\* errors only.
TranslateReturnNarrowExcept(text, reply) ==
    IF reply.kind = "ok"
    THEN [ret |-> Strip(reply.content), reported |-> FALSE, raised |-> "none"]
    ELSE IF reply.kind \in {"transport_error", "api_error"}
    THEN [ret |-> text, reported |-> TRUE, raised |-> "none"]
    ELSE [ret |-> NoValue, reported |-> FALSE, raised |-> reply.kind]

\* The try/except around the request: the stripped content of the first
\* choice, or on any Exception the original text after printing the error.
TranslateReturn(text, reply) ==
    IF reply.kind = "ok"
    THEN [ret |-> Strip(reply.content), reported |-> FALSE, raised |-> "none"]
    ELSE [ret |-> text, reported |-> TRUE, raised |-> "none"]

\* One whole invocation, given the reply the remote API would give.
TranslateText(call, text, reply) ==
    IF ~Binds(call)
    THEN [raised |-> "TypeError", ret |-> NoValue, requests |-> 0, reported |-> FALSE]
    ELSE IF ShortCircuits(text)
    THEN [raised |-> "none", ret |-> text, requests |-> 0, reported |-> FALSE]
    ELSE [raised |-> TranslateReturn(text, reply).raised,
          ret |-> TranslateReturn(text, reply).ret, requests |-> 1,
          reported |-> TranslateReturn(text, reply).reported]

\* The call shapes the source uses: translate_text(x),
\* translate_text(x, source_lang=.., target_lang=..) and
\* translate_text(source=.., target=..).
CallText == [positional |-> 1, keywords |-> {}]

CallTextLangs == [positional |-> 1, keywords |-> {"source_lang", "target_lang"}]

CallSourceTarget == [positional |-> 0, keywords |-> {"source", "target"}]

CallShapes == {CallText, CallTextLangs, CallSourceTarget}

TextAlphabet == {" ", "\n", "a", "b"}

TextPool == SeqsUpTo(TextAlphabet, MaxTextLen)

AdapterIdle ==
    /\ tt_pc = "idle"
    /\ tt_ret = NoValue
    /\ tt_requests = 0
    /\ tt_reported = FALSE
    /\ tt_raised = "none"
    /\ tt_reply = NoReply

\* The call does not bind: Python raises TypeError before the body runs.
TTBadCall ==
    /\ tt_pc = "idle"
    /\ ~Binds(tt_call)
    /\ tt_pc' = "returned"
    /\ tt_raised' = "TypeError"
    /\ UNCHANGED <<tt_call, tt_text, tt_ret, tt_requests, tt_reported, tt_reply, extractVars, recordVars, batchVars, sessionVars>>

\* Lines 50-51: blank text is returned at once.
TTShortCircuit ==
    /\ tt_pc = "idle"
    /\ Binds(tt_call)
    /\ ShortCircuits(tt_text)
    /\ tt_pc' = "returned"
    /\ tt_ret' = tt_text
    /\ UNCHANGED <<tt_call, tt_text, tt_requests, tt_reported, tt_raised, tt_reply, extractVars, recordVars, batchVars, sessionVars>>

\* Lines 74-80: the prompt is built and the request is issued.
TTRequest ==
    /\ tt_pc = "idle"
    /\ Binds(tt_call)
    /\ ~ShortCircuits(tt_text)
    /\ tt_pc' = "requesting"
    /\ tt_requests' = tt_requests + 1
    /\ UNCHANGED <<tt_call, tt_text, tt_ret, tt_reported, tt_raised, tt_reply, extractVars, recordVars, batchVars, sessionVars>>

\* As AfterReply, with a failed request issued once more.
AfterReplyRetryOnce(reply, requests) ==
    IF reply.kind \in ReplyFailures /\ requests < 2 THEN "idle" ELSE "returned"

\* Both the try block and the except clause end in a return statement: the
\* invocation is over once the request has come back.
AfterReply(reply, requests) == "returned"

\* Lines 82-87: the request came back, with a completion or an exception.
TTReply ==
    /\ tt_pc = "requesting"
    /\ \E reply \in Replies :
        /\ tt_reply' = reply
        /\ tt_ret' = TranslateReturn(tt_text, reply).ret
        /\ tt_reported' = TranslateReturn(tt_text, reply).reported
        /\ tt_raised' = TranslateReturn(tt_text, reply).raised
        /\ tt_pc' = AfterReply(reply, tt_requests)
    /\ UNCHANGED <<tt_call, tt_text, tt_requests, extractVars, recordVars, batchVars, sessionVars>>

NextAdapter == TTBadCall \/ TTShortCircuit \/ TTRequest \/ TTReply

(*************************************************************************)
(* More string primitives.                                               *)
(*************************************************************************)
\* sep.join(parts)
RECURSIVE Join(_, _)
Join(parts, sep) ==
    IF parts = <<>> THEN <<>>
    ELSE IF Len(parts) = 1 THEN parts[1]
    ELSE parts[1] \o sep \o Join(Tail(parts), sep)

\* s.split(c) for a one-character separator c: always at least one part.
Split(s, c) ==
    LET at == {i \in 1..Len(s) : s[i] = c}
        n == Cardinality(at)
        pos(k) == IF k = 0 THEN 0
                  ELSE IF k = n + 1 THEN Len(s) + 1
                  ELSE CHOOSE i \in at : Cardinality({j \in at : j < i}) = k - 1
    IN  [k \in 1..(n + 1) |-> SubSeq(s, pos(k - 1) + 1, pos(k) - 1)]

\* s.replace(old, ""): every non-overlapping occurrence, scanning from the left.
RECURSIVE Remove(_, _)
Remove(s, old) ==
    IF Len(s) < Len(old) THEN s
    ELSE IF SubSeq(s, 1, Len(old)) = old
    THEN Remove(SubSeq(s, Len(old) + 1, Len(s)), old)
    ELSE <<s[1]>> \o Remove(Tail(s), old)

\* old in s
Contains(s, old) ==
    \E i \in 1..(Len(s) - Len(old) + 1) : SubSeq(s, i, i + Len(old) - 1) = old

UpperCase == <<"A","B","C","D","E","F","G","H","I","J","K","L","M","N","O","P","Q","R","S","T","U","V","W","X","Y","Z">>

LowerCase == <<"a","b","c","d","e","f","g","h","i","j","k","l","m","n","o","p","q","r","s","t","u","v","w","x","y","z">>

LowerChar(c) ==
    IF \E i \in 1..Len(UpperCase) : UpperCase[i] = c
    THEN LowerCase[CHOOSE i \in 1..Len(UpperCase) : UpperCase[i] = c]
    ELSE c

Lower(s) == [i \in 1..Len(s) |-> LowerChar(s[i])]

\* re.search(pattern, line, re.IGNORECASE) for a pattern that is an
\* alternation of literals: some alternative occurs in the line, case
\* ignored. The alternatives are given lowered.
Search(loweredAlternatives, line) ==
    LET l == Lower(line)
    IN  \E a \in loweredAlternatives : Contains(l, a)

\* A dict as a function from its keys; d[k] = v.
DictSet(d, k, v) == [x \in (DOMAIN d) \cup {k} |-> IF x = k THEN v ELSE d[x]]

EmptyDict == <<>>

(*************************************************************************)
(* The parsed page (BeautifulSoup): an element is the sequence of its    *)
(* text nodes, select_one gives the element or None.                     *)
(*************************************************************************)
NoElem == [found |-> FALSE, nodes |-> <<>>]

Elem(nodes) == [found |-> TRUE, nodes |-> nodes]

\* element.get_text(separator=sep, strip=True): the text nodes stripped,
\* the empty ones dropped, joined by sep.
GetText(elem, sep) ==
    LET stripped == [i \in 1..Len(elem.nodes) |-> Strip(elem.nodes[i])]
        NonEmpty(t) == t # <<>>
    IN  Join(SelectSeq(stripped, NonEmpty), sep)

(*************************************************************************)
(* extract_structured_job_info                                           *)
(*************************************************************************)
SectionNames == <<"job_description", "requirements", "what_we_offer",
                  "employment_conditions", "application_process">>

\* sections = {...}: the five keys, each the empty string.
EmptySections == [s \in {SectionNames[i] : i \in 1..Len(SectionNames)} |-> <<>>]

\* The pattern table, in dict order; each pattern is the set of its alternatives.
section_patterns ==
    <<
     [name |-> "job_description", patterns |-> <<
            { <<"F","u","n","c","t","i","e","o","m","s","c","h","r","i","j","v","i","n","g">>,
              <<"J","o","b"," ","d","e","s","c","r","i","p","t","i","o","n">>,
              <<"W","h","a","t"," ","w","i","l","l"," ","y","o","u"," ","d","o">>,
              <<"W","a","t"," ","g","a"," ","j","e"," ","d","o","e","n">> },
            { <<"A","b","o","u","t"," ","t","h","e"," ","r","o","l","e">>,
              <<"O","v","e","r"," ","d","e"," ","f","u","n","c","t","i","e">> } >>],
     [name |-> "requirements", patterns |-> <<
            { <<"F","u","n","c","t","i","e","-","e","i","s","e","n">>,
              <<"J","o","b"," ","r","e","q","u","i","r","e","m","e","n","t","s">>,
              <<"R","e","q","u","i","r","e","m","e","n","t","s">>,
              <<"W","a","t"," ","v","r","a","g","e","n"," ","w","i","j">>,
              <<"W","h","a","t"," ","d","o"," ","w","e"," ","a","s","k">> },
            { <<"Y","o","u","r"," ","p","r","o","f","i","l","e">>,
              <<"J","o","u","w"," ","p","r","o","f","i","e","l">>,
              <<"C","o","m","p","e","t","e","n","c","i","e","s">>,
              <<"C","o","m","p","e","t","e","n","t","i","e","s">> } >>],
     [name |-> "what_we_offer", patterns |-> <<
            { <<"W","a","t"," ","b","i","e","d","e","n"," ","w","i","j">>,
              <<"W","h","a","t"," ","w","e"," ","o","f","f","e","r">>,
              <<"W","h","a","t"," ","d","o"," ","w","e"," ","o","f","f","e","r">>,
              <<"W","a","t"," ","k","r","i","j","g"," ","j","e"," ","e","r","v","o","o","r"," ","t","e","r","u","g">> } >>],
     [name |-> "employment_conditions", patterns |-> <<
            { <<"A","r","b","e","i","d","s","v","o","o","r","w","a","a","r","d","e","n">>,
              <<"E","m","p","l","o","y","m","e","n","t"," ","c","o","n","d","i","t","i","o","n","s">>,
              <<"S","a","l","a","r","y">>,
              <<"S","a","l","a","r","i","s">> } >>],
     [name |-> "application_process", patterns |-> <<
            { <<"S","o","l","l","i","c","i","t","e","r","e","n">>,
              <<"A","p","p","l","y">>,
              <<"A","p","p","l","i","c","a","t","i","o","n">>,
              <<"H","o","w"," ","t","o"," ","a","p","p","l","y">>,
              <<"B","i","j","z","o","n","d","e","r","h","e","d","e","n">> } >>]
    >>

NoSection == "none"

\* The alternatives of every pattern in lower case, as re.IGNORECASE compares them.
LoweredPatterns ==
    [i \in 1..Len(section_patterns) |->
        [p \in 1..Len(section_patterns[i].patterns) |->
            {Lower(a) : a \in section_patterns[i].patterns[p]}]]

\* As MatchSection, with the loops running to the end of the table: the last
\* section that matches.
MatchSectionLast(line) ==
    LET hits == {i \in 1..Len(section_patterns) :
                    \E p \in 1..Len(LoweredPatterns[i]) :
                        Search(LoweredPatterns[i][p], line)}
    IN  IF hits = {} THEN NoSection ELSE section_patterns[SetMax(hits)].name

\* The nested for/break loops over section_patterns: the first section, in
\* table order, one of whose patterns is found in the line.
MatchSection(line) ==
    LET hits == {i \in 1..Len(section_patterns) :
                    \E p \in 1..Len(LoweredPatterns[i]) :
                        Search(LoweredPatterns[i][p], line)}
    IN  IF hits = {} THEN NoSection ELSE section_patterns[SetMin(hits)].name

S_Standplaats == <<"S","t","a","n","d","p","l","a","a","t","s",":"," ">>

S_Adres == <<"A","d","r","e","s">>

S_AdresPrefix == <<"A","d","r","e","s"," ","|"," ">>

S_Contactgegevens == <<"C","o","n","t","a","c","t","g","e","g","e","v","e","n","s">>

S_ContactgegevensPrefix == <<"C","o","n","t","a","c","t","g","e","g","e","v","e","n","s"," ","|"," ">>

S_ContactSep == <<" ","|"," ">>

\* As ParseCompany, with the name stored before the number of parts is checked.
ParseCompanyPartial(company_info, company_text) ==
    LET raw == Split(company_text, MIDDOT)
        parts == [i \in 1..Len(raw) |-> Strip(raw[i])]
        named == DictSet(company_info, "name", parts[1])
    IN  IF Len(parts) >= 3
        THEN DictSet(DictSet(named,
                "location", Remove(parts[2], S_Standplaats)),
                "posting_date", parts[3])
        ELSE named

\* Lines 663-671: the company text split on the middle dot; with three or
\* more parts name, location and posting_date are set.
ParseCompany(company_info, company_text) ==
    LET raw == Split(company_text, MIDDOT)
        parts == [i \in 1..Len(raw) |-> Strip(raw[i])]
    IN  IF Len(parts) >= 3
        THEN DictSet(DictSet(DictSet(company_info,
                "name", parts[1]),
                "location", Remove(parts[2], S_Standplaats)),
                "posting_date", parts[3])
        ELSE company_info

\* Lines 674-682: label -> description for every feature block that has
\* both sub-elements; a repeated label keeps its place and takes the new value.
RECURSIVE CollectFeatures(_, _)
CollectFeatures(blocks, features) ==
    IF blocks = <<>> THEN features
    ELSE LET b == blocks[1]
             label == GetText(b.label, <<>>)
             description == GetText(b.desc, <<>>)
             at == {i \in 1..Len(features) : features[i][1] = label}
             next == IF ~(b.label.found /\ b.desc.found) THEN features
                     ELSE IF at = {} THEN Append(features, <<label, description>>)
                     ELSE [features EXCEPT ![SetMin(at)] = <<label, description>>]
         IN  CollectFeatures(Tail(blocks), next)

\* As CollectContacts, with two independent if statements.
RECURSIVE CollectContactsBoth(_, _)
CollectContactsBoth(blocks, contact_info) ==
    IF blocks = <<>> THEN contact_info
    ELSE LET contact_text == GetText(blocks[1], S_ContactSep)
             first == IF Contains(contact_text, S_Adres)
                      THEN DictSet(contact_info, "address",
                                   Remove(contact_text, S_AdresPrefix))
                      ELSE contact_info
             next == IF Contains(contact_text, S_Contactgegevens)
                     THEN DictSet(first, "contact_details",
                                  Remove(contact_text, S_ContactgegevensPrefix))
                     ELSE first
         IN  CollectContactsBoth(Tail(blocks), next)

\* Lines 687-697: every contact block is classified by substring.
RECURSIVE CollectContacts(_, _)
CollectContacts(blocks, contact_info) ==
    IF blocks = <<>> THEN contact_info
    ELSE LET contact_text == GetText(blocks[1], S_ContactSep)
             next == IF Contains(contact_text, S_Adres)
                     THEN DictSet(contact_info, "address",
                                  Remove(contact_text, S_AdresPrefix))
                     ELSE IF Contains(contact_text, S_Contactgegevens)
                     THEN DictSet(contact_info, "contact_details",
                                  Remove(contact_text, S_ContactgegevensPrefix))
                     ELSE contact_info
         IN  CollectContacts(Tail(blocks), next)

\* An order in which the title is read before the main content is looked up.
ExtractOrderTitleFirst == <<"title", "main", "company", "features", "contact", "segment">>

\* The order of the extraction steps in the function body.
ExtractOrder == <<"main", "title", "company", "features", "contact", "segment">>

StepAfter(step) ==
    LET i == CHOOSE k \in 1..Len(ExtractOrder) : ExtractOrder[k] = step
    IN  IF i = Len(ExtractOrder) THEN "lines" ELSE ExtractOrder[i + 1]

\* Lines 636-645: the record as first built.
NewJobInfo(url) ==
    [k \in {"url", "extraction_timestamp", "company_info", "job_details",
            "requirements", "employment_conditions", "contact_info", "raw_content"} |->
        CASE k = "url" -> url
          [] k = "extraction_timestamp" -> "timestamp"
          [] k = "raw_content" -> <<>>
          [] OTHER -> EmptyDict]

\* A segmentation that starts in the second section of the table.
InitialSectionSecond == "requirements"

\* Line 733: current_section = "job_description"
InitialSection == "job_description"

\* As Flush, with the buffered lines added to the text the section holds.
FlushAppending(secs, section, content) ==
    IF content # <<>>
    THEN [secs EXCEPT ![section] = Strip(@ \o <<"\n">> \o Join(content, <<"\n">>))]
    ELSE secs

\* As Flush, with the lines joined by a space.
FlushJoinSpace(secs, section, content) ==
    IF content # <<>>
    THEN [secs EXCEPT ![section] = Strip(Join(content, <<" ">>))]
    ELSE secs

\* Lines 748-751 and 764-765: the buffered lines, if any, replace the text
\* stored for the current section.
Flush(secs, section, content) ==
    IF content # <<>>
    THEN [secs EXCEPT ![section] = Strip(Join(content, <<"\n">>))]
    ELSE secs

(*************************************************************************)
(* Pages the Extractor is run on.                                        *)
(*************************************************************************)
L_Functieomschrijving == <<"F","u","n","c","t","i","e","o","m","s","c","h","r","i","j","v","i","n","g">>

L_lineA == <<"l","i","n","e"," ","A">>

L_FunctieEisen == <<"F","u","n","c","t","i","e","-","e","i","s","e","n">>

L_lineB == <<"l","i","n","e"," ","B">>

L_WatGaJeDoen == <<"W","a","t"," ","g","a"," ","j","e"," ","d","o","e","n">>

L_SalaryRequirements == <<"S","a","l","a","r","y"," ","r","e","q","u","i","r","e","m","e","n","t","s">>

L_howToApply == <<"h","o","w"," ","t","o"," ","A","P","P","L","Y">>

L_twoLines == <<" "," ","l","i","n","e"," ","C"," ","\n","\n"," ","W","a","t"," ","b","i","e","d","e","n"," ","w","i","j"," ">>

NodePool == {L_Functieomschrijving, L_lineA, L_FunctieEisen, L_WatGaJeDoen,
             L_SalaryRequirements, L_howToApply, L_twoLines}

\* The segmentation example of the specification.
ExampleNodes == <<L_Functieomschrijving, L_lineA, L_FunctieEisen, L_lineB>>

L_plainLines == <<" ","l","i","n","e"," ","C"," ","\n","\n"," ","l","i","n","e"," ","B"," ">>

\* Text nodes without any marker, with a blank line inside.
PlainNodes == <<L_lineA, L_plainLines>>

T_Title == <<"P","y","t","h","o","n"," ","D","e","v","e","l","o","p","e","r">>

T_AcmeExample == <<"A","c","m","e"," ","B","V"," ",MIDDOT," ","S","t","a","n","d","p","l","a","a","t","s",":"," ","A","m","s","t","e","r","d","a","m"," ",MIDDOT," ","3"," ","d","a","g","e","n"," ","g","e","l","e","d","e","n">>

CompanyChunks == { <<"A","c","m","e">>, <<" ">>, <<MIDDOT>>, S_Standplaats }

RECURSIVE Concat(_)
Concat(parts) == IF parts = <<>> THEN <<>> ELSE parts[1] \o Concat(Tail(parts))

CompanyTexts == {Concat(c) : c \in SeqsUpTo(CompanyChunks, MaxCompanyChunks)} \cup {T_AcmeExample}

F_Uren == <<"U","r","e","n">>

FeatureBlocks ==
    { [label |-> Elem(<<F_Uren>>), desc |-> Elem(<<<<"4","0">>>>)],
      [label |-> Elem(<<F_Uren>>), desc |-> Elem(<<<<" ","3","2"," ">>>>)],
      [label |-> Elem(<<<<"N","i","v","e","a","u">>>>), desc |-> NoElem],
      [label |-> NoElem, desc |-> Elem(<<<<"H","B","O">>>>)],
      [label |-> Elem(<<<<"N","i","v","e","a","u">>>>), desc |-> Elem(<<<<"H","B","O">>>>)] }

ContactBlocks ==
    { Elem(<<S_Adres, <<"S","t","r","a","a","t"," ","1">>>>),
      Elem(<<S_Contactgegevens, <<"J","a","n">>>>),
      Elem(<<S_Contactgegevens, S_Adres, <<"S","t","r","a","a","t"," ","1">>>>),
      Elem(<<<<"T","e","l","e","f","o","o","n">>, <<"0","6">>>>) }

DefaultPage ==
    [url |-> "url", main |-> Elem(<<L_lineA>>), h1 |-> Elem(<<T_Title>>),
     company |-> NoElem, features |-> <<>>, contacts |-> <<>>]

MainPages ==
    {[DefaultPage EXCEPT !.main = Elem(n)] :
        n \in SeqsUpTo(NodePool, MaxNodes) \cup {ExampleNodes, PlainNodes}}

CompanyPages ==
    {[DefaultPage EXCEPT !.company = Elem(<<t>>)] : t \in CompanyTexts}

FeaturePages ==
    {[DefaultPage EXCEPT !.features = f, !.h1 = h] :
        f \in SeqsUpTo(FeatureBlocks, MaxBlocks), h \in {NoElem, Elem(<<T_Title>>)}}

ContactPages ==
    {[DefaultPage EXCEPT !.contacts = c] : c \in SeqsUpTo(ContactBlocks, MaxBlocks)}

NoMainPages ==
    {[DefaultPage EXCEPT !.main = NoElem, !.h1 = h, !.company = c, !.features = f,
                         !.contacts = k] :
        h \in {NoElem, Elem(<<T_Title>>)},
        c \in {NoElem, Elem(<<T_AcmeExample>>)},
        f \in SeqsUpTo(FeatureBlocks, 1),
        k \in SeqsUpTo(ContactBlocks, 1)}

Pages == MainPages \cup CompanyPages \cup FeaturePages \cup ContactPages \cup NoMainPages

(*************************************************************************)
(* extract_structured_job_info(soup, url), step by step.                 *)
(*************************************************************************)
ExtractorIdle ==
    /\ ex_steps = {}
    /\ ex_ret = "pending"
    /\ seg_lines = <<>>
    /\ seg_idx = 1
    /\ current_section = "job_description"
    /\ current_content = <<>>
    /\ sections = EmptySections

Did(step) == ex_steps' = ex_steps \cup {step}

segVars == <<seg_lines, seg_idx, current_section, current_content, sections>>

\* Lines 649-651: no main content element, the function returns None.
ExMainMissing ==
    /\ ex_pc = "main"
    /\ ~page.main.found
    /\ ex_ret' = "None"
    /\ ex_pc' = "done"
    /\ Did("main")
    /\ UNCHANGED <<page, job_info, segVars, adapterVars, recordVars, batchVars, sessionVars>>

\* Line 653: raw_content is the text of the main content element.
ExMain ==
    /\ ex_pc = "main"
    /\ page.main.found
    /\ job_info' = [job_info EXCEPT !["raw_content"] = GetText(page.main, <<"\n">>)]
    /\ ex_pc' = StepAfter("main")
    /\ Did("main")
    /\ UNCHANGED <<page, ex_ret, segVars, adapterVars, recordVars, batchVars, sessionVars>>

\* Lines 656-658: the first h1, if any, gives the title.
ExTitle ==
    /\ ex_pc = "title"
    /\ job_info' = IF page.h1.found
                   THEN [job_info EXCEPT !["job_details"] =
                            DictSet(@, "title", GetText(page.h1, <<>>))]
                   ELSE job_info
    /\ ex_pc' = StepAfter("title")
    /\ Did("title")
    /\ UNCHANGED <<page, ex_ret, segVars, adapterVars, recordVars, batchVars, sessionVars>>

\* Lines 661-671: the company info element, if any, is parsed.
ExCompany ==
    /\ ex_pc = "company"
    /\ job_info' = IF page.company.found
                   THEN [job_info EXCEPT !["company_info"] =
                            ParseCompany(@, GetText(page.company, <<>>))]
                   ELSE job_info
    /\ ex_pc' = StepAfter("company")
    /\ Did("company")
    /\ UNCHANGED <<page, ex_ret, segVars, adapterVars, recordVars, batchVars, sessionVars>>

\* Lines 674-684: the sidebar features.
ExFeatures ==
    /\ ex_pc = "features"
    /\ job_info' = [job_info EXCEPT !["job_details"] =
                        DictSet(@, "features", CollectFeatures(page.features, <<>>))]
    /\ ex_pc' = StepAfter("features")
    /\ Did("features")
    /\ UNCHANGED <<page, ex_ret, segVars, adapterVars, recordVars, batchVars, sessionVars>>

\* Lines 687-697: the contact blocks.
ExContact ==
    /\ ex_pc = "contact"
    /\ job_info' = [job_info EXCEPT !["contact_info"] =
                        CollectContacts(page.contacts, @)]
    /\ ex_pc' = StepAfter("contact")
    /\ Did("contact")
    /\ UNCHANGED <<page, ex_ret, segVars, adapterVars, recordVars, batchVars, sessionVars>>

\* Lines 700-736: the segmentation state is set up and raw_content is split.
ExSegment ==
    /\ ex_pc = "segment"
    /\ sections' = EmptySections
    /\ current_section' = InitialSection
    /\ current_content' = <<>>
    /\ seg_lines' = Split(job_info["raw_content"], "\n")
    /\ seg_idx' = 1
    /\ ex_pc' = StepAfter("segment")
    /\ Did("segment")
    /\ UNCHANGED <<page, job_info, ex_ret, adapterVars, recordVars, batchVars, sessionVars>>

\* Lines 738-740: a line that is empty once stripped is skipped.
ExLineBlank ==
    /\ ex_pc = "lines"
    /\ seg_idx <= Len(seg_lines)
    /\ Strip(seg_lines[seg_idx]) = <<>>
    /\ seg_idx' = seg_idx + 1
    /\ UNCHANGED <<page, job_info, ex_pc, ex_ret, ex_steps, seg_lines, current_section,
                   current_content, sections, adapterVars, recordVars, batchVars, sessionVars>>

\* As BufferAfterMarker, with the buffer of the section before kept.
BufferAfterMarkerKept(content, line) == Append(content, line)

\* Line 755: current_content = [line]
BufferAfterMarker(content, line) == <<line>>

\* Lines 743-758: the line matches a section pattern.
ExLineMarker ==
    /\ ex_pc = "lines"
    /\ seg_idx <= Len(seg_lines)
    /\ LET line == Strip(seg_lines[seg_idx])
       IN  /\ line # <<>>
           /\ MatchSection(line) # NoSection
           /\ sections' = Flush(sections, current_section, current_content)
           /\ current_section' = MatchSection(line)
           /\ current_content' = BufferAfterMarker(current_content, line)
    /\ seg_idx' = seg_idx + 1
    /\ UNCHANGED <<page, job_info, ex_pc, ex_ret, ex_steps, seg_lines, adapterVars, recordVars, batchVars, sessionVars>>

\* Lines 760-761: any other line joins the buffer.
ExLineAppend ==
    /\ ex_pc = "lines"
    /\ seg_idx <= Len(seg_lines)
    /\ LET line == Strip(seg_lines[seg_idx])
       IN  /\ line # <<>>
           /\ MatchSection(line) = NoSection
           /\ current_content' = Append(current_content, line)
    /\ seg_idx' = seg_idx + 1
    /\ UNCHANGED <<page, job_info, ex_pc, ex_ret, ex_steps, seg_lines, current_section,
                   sections, adapterVars, recordVars, batchVars, sessionVars>>

\* Lines 764-769: the last buffer is stored and the record is returned.
ExFinish ==
    /\ ex_pc = "lines"
    /\ seg_idx > Len(seg_lines)
    /\ sections' = Flush(sections, current_section, current_content)
    /\ job_info' = DictSet(job_info, "structured_content", sections')
    /\ ex_ret' = "job_info"
    /\ ex_pc' = "done"
    /\ UNCHANGED <<page, ex_steps, seg_lines, seg_idx, current_section, current_content,
                   adapterVars, recordVars, batchVars, sessionVars>>

NextExtract ==
    \/ ExMainMissing \/ ExMain \/ ExTitle \/ ExCompany \/ ExFeatures \/ ExContact
    \/ ExSegment \/ ExLineBlank \/ ExLineMarker \/ ExLineAppend \/ ExFinish


(*************************************************************************)
(* translate_structured_job_info(job_info), step by step.                *)
(*                                                                       *)
(* translated_info = job_info.copy() is a shallow copy: the nested dicts *)
(* company_info and job_details are the same objects in both records.    *)
(* job_obj holds the argument with those nested dicts, translated_own    *)
(* the top-level entries assigned to translated_info afterwards.         *)
(*************************************************************************)
\* content[:3000] if len(content) > 3000 else content
TruncateLimit == 3000

Truncate(content) ==
    IF Len(content) > TruncateLimit THEN SubSeq(content, 1, TruncateLimit) ELSE content

\* The record translated_info as the caller sees it.
TranslatedInfo ==
    [k \in (DOMAIN job_obj) \cup (DOMAIN translated_own) |->
        IF k \in DOMAIN translated_own THEN translated_own[k] ELSE job_obj[k]]

\* Records given to the orchestrator: records as the Extractor builds them,
\* and records whose job_details has no features entry.
Body(n) == [i \in 1..n |-> IF i % 7 = 0 /\ i < n THEN " " ELSE "w"]

B_Short == <<"F","u","n","c","t","i","e","o","m","s","c","h","r","i","j","v","i","n","g","\n","l","i","n","e"," ","A">>

B_Req == <<"F","u","n","c","t","i","e","-","e","i","s","e","n","\n","l","i","n","e"," ","B">>

B_Offer == <<"W","a","t"," ","b","i","e","d","e","n"," ","w","i","j","\n","l","i","n","e"," ","A">>

B_Apply == <<"S","o","l","l","i","c","i","t","e","r","e","n","\n">>

SectionsWith(jd, req, offer, appl) ==
    [EmptySections EXCEPT !["job_description"] = jd, !["requirements"] = req,
                          !["what_we_offer"] = offer, !["application_process"] = appl]

StructuredContents ==
    { EmptySections,
      SectionsWith(B_Short, B_Req, <<>>, <<>>),
      SectionsWith(<<>>, <<>>, B_Offer, <<>>),
      SectionsWith(Body(TruncateLimit), B_Req, <<>>, <<>>),
      SectionsWith(Body(TruncateLimit + ExtraLen), <<>>, <<>>, <<>>),
      SectionsWith(<<>>, <<>>, <<>>, B_Apply \o Body(TruncateLimit + ExtraLen)) }

\* The raw_content whose segmentation gives the sections sc.
RawContentOf(sc) ==
    LET NonEmpty(t) == t # <<>>
    IN  Join(SelectSeq(<<sc["job_description"], sc["requirements"], sc["what_we_offer"],
                         sc["employment_conditions"], sc["application_process"]>>, NonEmpty),
             <<"\n">>)

CompanyInfos ==
    { EmptyDict,
      ParseCompany(EmptyDict, T_AcmeExample) }

FeatureLists ==
    { <<>>,
      << <<F_Uren, <<"4","0">>>> >>,
      << <<<<>>, <<"H","B","O">>>> >>,
      << <<F_Uren, <<"4","0">>>>, <<<<"N","i","v","e","a","u">>, <<"H","B","O">>>> >> }

JobDetails ==
    LET withFeatures == {DictSet(EmptyDict, "features", f) : f \in FeatureLists}
        withoutTitle == withFeatures \cup {EmptyDict}
    IN  withoutTitle \cup {DictSet(d, "title", T_Title) : d \in withoutTitle}

JobRecords ==
    { DictSet([NewJobInfo("url") EXCEPT !["company_info"] = c, !["job_details"] = d,
                                        !["raw_content"] = RawContentOf(sc)],
              "structured_content", sc) :
        c \in CompanyInfos, d \in JobDetails, sc \in StructuredContents }

RecordIdle ==
    /\ tr_pc = "idle"
    /\ job_before = NewJobInfo("url")
    /\ job_obj = NewJobInfo("url")
    /\ translated_own = EmptyDict
    /\ tr_idx = 1
    /\ translated_key = NoValue
    /\ content_to_translate = NoValue
    /\ translated_sections = EmptyDict
    /\ tr_passed = <<>>
    /\ tr_requests = 0
    /\ tr_printed = <<>>

\* Line 782: translated_info = job_info.copy()
TrCopy ==
    /\ tr_pc = "start"
    /\ translated_own' = EmptyDict
    /\ tr_pc' = "name"
    /\ UNCHANGED <<job_before, job_obj, tr_idx, translated_key, content_to_translate,
                   translated_sections, tr_passed, tr_requests, tr_printed,
                   adapterVars, extractVars, batchVars, sessionVars>>

\* Lines 831-833: the except clause prints the error and returns translated_info.
Handled(error) ==
    /\ tr_printed' = Append(tr_printed, <<"Error translating job info", error>>)
    /\ tr_pc' = "done"

\* Line 786, no company name: nothing to translate.
TrNameAbsent ==
    /\ tr_pc = "name"
    /\ "name" \notin DOMAIN job_obj["company_info"]
    /\ tr_pc' = "title"
    /\ UNCHANGED <<job_before, job_obj, translated_own, tr_idx, translated_key,
                   content_to_translate, translated_sections, tr_passed, tr_requests,
                   tr_printed, adapterVars, extractVars, batchVars, sessionVars>>

\* Lines 787-789: translate_text(source="auto", target="en") does not bind, so
\* TypeError is raised before .translate(...) and the assignment of name_en.
TrNameRaises ==
    /\ tr_pc = "name"
    /\ "name" \in DOMAIN job_obj["company_info"]
    /\ TranslateText(CallSourceTarget, NoValue, NoReply).raised # "none"
    /\ Handled(TranslateText(CallSourceTarget, NoValue, NoReply).raised)
    /\ UNCHANGED <<job_before, job_obj, translated_own, tr_idx, translated_key,
                   content_to_translate, translated_sections, tr_passed, tr_requests,
                   adapterVars, extractVars, batchVars, sessionVars>>

\* Line 792, no title.
TrTitleAbsent ==
    /\ tr_pc = "title"
    /\ "title" \notin DOMAIN job_obj["job_details"]
    /\ tr_pc' = "features"
    /\ tr_idx' = 1
    /\ UNCHANGED <<job_before, job_obj, translated_own, translated_key,
                   content_to_translate, translated_sections, tr_passed, tr_requests,
                   tr_printed, adapterVars, extractVars, batchVars, sessionVars>>

\* Lines 793-795: the same call as for the name.
TrTitleRaises ==
    /\ tr_pc = "title"
    /\ "title" \in DOMAIN job_obj["job_details"]
    /\ TranslateText(CallSourceTarget, NoValue, NoReply).raised # "none"
    /\ Handled(TranslateText(CallSourceTarget, NoValue, NoReply).raised)
    /\ UNCHANGED <<job_before, job_obj, translated_own, tr_idx, translated_key,
                   content_to_translate, translated_sections, tr_passed, tr_requests,
                   adapterVars, extractVars, batchVars, sessionVars>>

\* Line 798, no features entry.
TrFeaturesAbsent ==
    /\ tr_pc = "features"
    /\ "features" \notin DOMAIN job_obj["job_details"]
    /\ tr_pc' = "sections"
    /\ tr_idx' = 1
    /\ UNCHANGED <<job_before, job_obj, translated_own, translated_key,
                   content_to_translate, translated_sections, tr_passed, tr_requests,
                   tr_printed, adapterVars, extractVars, batchVars, sessionVars>>

\* Line 801: translated_key = groq_translator.translate_text(key), a call
\* that binds; the adapter answers as TranslateText says.
TrFeatureKey ==
    /\ tr_pc = "features"
    /\ "features" \in DOMAIN job_obj["job_details"]
    /\ tr_idx <= Len(job_obj["job_details"]["features"])
    /\ \E reply \in Replies :
        LET key == job_obj["job_details"]["features"][tr_idx][1]
            r == TranslateText(CallText, key, reply)
        IN  /\ r.raised = "none"
            /\ translated_key' = r.ret
            /\ tr_passed' = Append(tr_passed, key)
            /\ tr_requests' = tr_requests + r.requests
            /\ tr_printed' = IF r.reported
                             THEN Append(tr_printed, <<"Translation error", reply.kind>>)
                             ELSE tr_printed
    /\ tr_pc' = "feature_value"
    /\ UNCHANGED <<job_before, job_obj, translated_own, tr_idx, content_to_translate,
                   translated_sections, adapterVars, extractVars, batchVars, sessionVars>>

\* Lines 802-804: the value is translated with the call that does not bind.
TrFeatureValueRaises ==
    /\ tr_pc = "feature_value"
    /\ TranslateText(CallSourceTarget, NoValue, NoReply).raised # "none"
    /\ Handled(TranslateText(CallSourceTarget, NoValue, NoReply).raised)
    /\ UNCHANGED <<job_before, job_obj, translated_own, tr_idx, translated_key,
                   content_to_translate, translated_sections, tr_passed, tr_requests,
                   adapterVars, extractVars, batchVars, sessionVars>>

\* Line 808, after a loop over no features:
\* translated_info["job_details"]["features_translated"] = {} is stored in
\* the job_details dict that job_info refers to as well.
TrFeaturesStore ==
    /\ tr_pc = "features"
    /\ "features" \in DOMAIN job_obj["job_details"]
    /\ tr_idx > Len(job_obj["job_details"]["features"])
    /\ job_obj' = [job_obj EXCEPT !["job_details"] = DictSet(@, "features_translated", EmptyDict)]
    /\ tr_pc' = "sections"
    /\ tr_idx' = 1
    /\ UNCHANGED <<job_before, translated_own, translated_key, content_to_translate,
                   translated_sections, tr_passed, tr_requests, tr_printed,
                   adapterVars, extractVars, batchVars, sessionVars>>

\* Line 813: a section whose content is blank is passed over.
TrSectionBlank ==
    /\ tr_pc = "sections"
    /\ tr_idx <= Len(SectionNames)
    /\ Strip(job_obj["structured_content"][SectionNames[tr_idx]]) = <<>>
    /\ tr_idx' = tr_idx + 1
    /\ UNCHANGED <<tr_pc, job_before, job_obj, translated_own, translated_key,
                   content_to_translate, translated_sections, tr_passed, tr_requests,
                   tr_printed, adapterVars, extractVars, batchVars, sessionVars>>

\* Lines 815-820: content_to_translate is cut to the limit, then the call
\* that does not bind raises before the text is handed over.
TrSectionRaises ==
    /\ tr_pc = "sections"
    /\ tr_idx <= Len(SectionNames)
    /\ Strip(job_obj["structured_content"][SectionNames[tr_idx]]) # <<>>
    /\ content_to_translate' = Truncate(job_obj["structured_content"][SectionNames[tr_idx]])
    /\ TranslateText(CallSourceTarget, NoValue, NoReply).raised # "none"
    /\ Handled(TranslateText(CallSourceTarget, NoValue, NoReply).raised)
    /\ UNCHANGED <<job_before, job_obj, translated_own, tr_idx, translated_key,
                   translated_sections, tr_passed, tr_requests, adapterVars, extractVars, batchVars, sessionVars>>

\* Lines 827-829: translated_sections is stored and translated_info returned.
TrReturn ==
    /\ tr_pc = "sections"
    /\ tr_idx > Len(SectionNames)
    /\ translated_own' = DictSet(translated_own, "translated_sections", translated_sections)
    /\ tr_pc' = "done"
    /\ UNCHANGED <<job_before, job_obj, tr_idx, translated_key, content_to_translate,
                   translated_sections, tr_passed, tr_requests, tr_printed,
                   adapterVars, extractVars, batchVars, sessionVars>>

NextRecord ==
    \/ TrCopy \/ TrNameAbsent \/ TrNameRaises \/ TrTitleAbsent \/ TrTitleRaises
    \/ TrFeaturesAbsent \/ TrFeatureKey \/ TrFeatureValueRaises \/ TrFeaturesStore
    \/ TrSectionBlank \/ TrSectionRaises \/ TrReturn

(*************************************************************************)
(* The batch loops: stress_test_translation(url),                        *)
(* scrape_multiple_pages(base_url, num_pages_to_scrape) and              *)
(* run_large_scale_translation_test(base_url, max_jobs_to_translate).    *)
(*                                                                       *)
(* bt_log records what the run did to its collaborators, in order: each  *)
(* page fetch with its outcome, each call of translate_text for a card   *)
(* with its outcome, and each time.sleep, for the pages 1..MaxPages.      *)
(* Page numbers beyond MaxPages are not told apart: the code reads        *)
(* page_num only to build the address of the page.                        *)
(*************************************************************************)
BatchFunctions == {"stress_test_translation", "scrape_multiple_pages",
                   "run_large_scale_translation_test"}

\* requests.get / raise_for_status raise a RequestException, or the page arrives.
FetchFailures == {"ConnectionError", "HTTPError"}

\* A job card: its whole text (card.get_text) and the text of its a.jobTitle.
Card(text, title) == [text |-> text, title |-> title]

CardBlank == Card(<<>>, <<>>)

CardA == Card(<<"a">>, <<"a">>)

CardNoTitle == Card(<<"b"," ","|"," ","c">>, <<>>)

\* The job cards a list page may carry.
CardLists ==
    { <<>>, <<CardA>>, <<CardBlank>>, <<CardA, CardNoTitle>>, <<CardBlank, CardA>>,
      <<CardNoTitle, CardBlank, CardA>> }

Event(ev, page_num, card, outcome) ==
    [ev |-> ev, page |-> page_num, card |-> card, outcome |-> outcome]

\* The call expression each loop uses: lines 198, 278-280 and 359-361.
BatchCall(fn) ==
    CASE fn = "stress_test_translation" -> CallText
      [] fn = "scrape_multiple_pages" -> CallTextLangs
      [] fn = "run_large_scale_translation_test" -> CallSourceTarget

\* The text the call passes: original_text, job_title, or none at all.
BatchText(fn, card) ==
    CASE fn = "stress_test_translation" -> card.text
      [] fn = "scrape_multiple_pages" -> card.title
      [] fn = "run_large_scale_translation_test" -> NoValue

\* As SleepsAfter, with time.sleep placed inside the try block after the call.
SleepsAfterSuccessOnly(raised) == raised = "none"

\* time.sleep stands after the try/except of the attempt: it runs whether or
\* not the attempt raised.
SleepsAfter(raised) == TRUE

\* As PageAfterFailure, with the page fetched again.
PageAfterFailureRetry(page_num) == page_num

\* Lines 293-295 (continue) and 382-385 (page_num += 1): the page after a failed one.
PageAfterFailure(page_num) == page_num + 1

\* Where the page loop stands once page number next is due: the for loop over
\* range(1, num_pages_to_scrape + 1), the while loop on translated_jobs_count,
\* or the single fetch of stress_test_translation.
LoopHead(fn, next, count, limit) ==
    CASE fn = "stress_test_translation" -> "done"
      [] fn = "scrape_multiple_pages" -> IF next <= limit THEN "fetch" ELSE "done"
      [] fn = "run_large_scale_translation_test" -> IF count < limit THEN "fetch" ELSE "done"

\* bt_log with the event added, for the pages that are logged.
Noted(log, event) == IF event.page <= MaxPages THEN Append(log, event) ELSE log

\* page_num + 1 at the end of a pass of the page loop.
NextPage(page_num) == IF page_num > MaxPages THEN page_num ELSE page_num + 1

BatchIdle ==
    /\ bt_fn = "none"
    /\ bt_pc = "idle"
    /\ bt_limit = 0
    /\ bt_page = 1
    /\ bt_cards = <<>>
    /\ bt_idx = 1
    /\ bt_count = 0
    /\ bt_log = <<>>

\* Lines 156-157, 249-250, 335-336 raise: the page is given up.
BtFetchFails ==
    /\ bt_pc = "fetch"
    /\ bt_page <= MaxPages
    /\ \E failure \in FetchFailures :
        bt_log' = Append(bt_log, Event("fetch", bt_page, 0, failure))
    /\ bt_page' = IF bt_fn = "stress_test_translation" THEN bt_page
                  ELSE PageAfterFailure(bt_page)
    /\ bt_pc' = LoopHead(bt_fn, bt_page', bt_count, bt_limit)
    /\ UNCHANGED <<bt_fn, bt_limit, bt_cards, bt_idx, bt_count,
                   adapterVars, extractVars, recordVars, sessionVars>>

\* Lines 173-176, 258-262, 345-347: a page without job cards ends the run.
BtFetchEmpty ==
    /\ bt_pc = "fetch"
    /\ bt_page <= MaxPages
    /\ bt_log' = Append(bt_log, Event("fetch", bt_page, 0, "ok"))
    /\ bt_cards' = <<>>
    /\ bt_pc' = "done"
    /\ UNCHANGED <<bt_fn, bt_limit, bt_page, bt_idx, bt_count,
                   adapterVars, extractVars, recordVars, sessionVars>>

\* The page arrives with job cards: the loop over the cards starts.
BtFetchCards ==
    /\ bt_pc = "fetch"
    /\ bt_page <= MaxPages
    /\ \E cards \in CardLists \ {<<>>} : bt_cards' = cards
    /\ bt_log' = Append(bt_log, Event("fetch", bt_page, 0, "ok"))
    /\ bt_idx' = 1
    /\ bt_pc' = "card"
    /\ UNCHANGED <<bt_fn, bt_limit, bt_page, bt_count,
                   adapterVars, extractVars, recordVars, sessionVars>>

\* Lines 350-351: run_large_scale_translation_test leaves the card loop once
\* the target is reached.
CardLoopOver ==
    \/ bt_idx > Len(bt_cards)
    \/ bt_fn = "run_large_scale_translation_test" /\ bt_count >= bt_limit

\* Lines 190-191, 271-272, 354-355: a card without text is passed over.
BtCardBlank ==
    /\ bt_pc = "card"
    /\ ~CardLoopOver
    /\ bt_cards[bt_idx].text = <<>>
    /\ bt_idx' = bt_idx + 1
    /\ UNCHANGED <<bt_fn, bt_pc, bt_limit, bt_page, bt_cards, bt_count, bt_log,
                   adapterVars, extractVars, recordVars, sessionVars>>

\* Lines 197-202, 277-289, 358-376: translate_text is called for the card
\* inside try/except; the counter moves only if the call returned.
BtTranslate ==
    /\ bt_pc = "card"
    /\ ~CardLoopOver
    /\ bt_cards[bt_idx].text # <<>>
    /\ \E reply \in Replies :
        LET r == TranslateText(BatchCall(bt_fn), BatchText(bt_fn, bt_cards[bt_idx]), reply)
        IN  /\ bt_log' = Noted(bt_log, Event("translate", bt_page, bt_idx, r.raised))
            /\ bt_count' = IF r.raised = "none" THEN bt_count + 1 ELSE bt_count
            /\ bt_pc' = IF SleepsAfter(r.raised) THEN "sleep" ELSE "next_card"
    /\ UNCHANGED <<bt_fn, bt_limit, bt_page, bt_cards, bt_idx,
                   adapterVars, extractVars, recordVars, sessionVars>>

\* Lines 205, 291, 380: time.sleep, then the next card.
BtSleep ==
    /\ bt_pc \in {"sleep", "next_card"}
    /\ bt_log' = IF bt_pc = "sleep" THEN Noted(bt_log, Event("sleep", bt_page, bt_idx, "none"))
                 ELSE bt_log
    /\ bt_idx' = bt_idx + 1
    /\ bt_pc' = "card"
    /\ UNCHANGED <<bt_fn, bt_limit, bt_page, bt_cards, bt_count,
                   adapterVars, extractVars, recordVars, sessionVars>>

\* The card loop is over: the summary (stress_test_translation), the next
\* page_num of the for loop, or page_num += 1 and the while test.
BtCardsEnd ==
    /\ bt_pc = "card"
    /\ CardLoopOver
    /\ bt_page' = IF bt_fn = "stress_test_translation" THEN bt_page ELSE NextPage(bt_page)
    /\ bt_pc' = LoopHead(bt_fn, bt_page', bt_count, bt_limit)
    /\ UNCHANGED <<bt_fn, bt_limit, bt_cards, bt_idx, bt_count, bt_log,
                   adapterVars, extractVars, recordVars, sessionVars>>

NextBatch ==
    \/ BtFetchFails \/ BtFetchEmpty \/ BtFetchCards
    \/ BtCardBlank \/ BtTranslate \/ BtSleep \/ BtCardsEnd

\* Lines 335-347 and 382-385 for a page beyond MaxPages: the fetch fails, or
\* the page arrives without job cards, or it arrives with job cards.
BtFetchBeyond ==
    /\ bt_pc = "fetch"
    /\ bt_page > MaxPages
    /\ \/ /\ bt_pc' = LoopHead(bt_fn, NextPage(bt_page), bt_count, bt_limit)
          /\ UNCHANGED <<bt_cards, bt_idx>>
       \/ /\ bt_cards' = <<>>
          /\ bt_pc' = "done"
          /\ UNCHANGED bt_idx
       \/ /\ \E cards \in CardLists \ {<<>>} : bt_cards' = cards
          /\ bt_idx' = 1
          /\ bt_pc' = "card"
    /\ UNCHANGED <<bt_fn, bt_limit, bt_page, bt_count, bt_log,
                   adapterVars, extractVars, recordVars, sessionVars>>

\* The batch loops with the page loop followed beyond MaxPages.
NextBatchOn == NextBatch \/ BtFetchBeyond

(*************************************************************************)
(* The functions that launch a browser session:                          *)
(* get_full_job_description_with_selenium(detail_page_url),              *)
(* diagnose_page_structure(base_url) and                                 *)
(* process_single_structured_job(base_url).                              *)
(*                                                                       *)
(* ss_log records, in order, the operations on the driver ("launch",     *)
(* "get", "page_source", "quit") and what the run put out.               *)
(*************************************************************************)
SessionFunctions == {"get_full_job_description_with_selenium", "diagnose_page_structure",
                     "process_single_structured_job"}

\* The operations on the driver object.
DriverOps == {"get", "page_source", "quit"}

Logged(events) == ss_log' = ss_log \o events

\* As Leaves, with a return statement that leaves the function at once.
LeavesReturnSkipsFinally(how) == IF how = "return" THEN "done" ELSE "finally"

\* try ... finally: the finally clause runs however the try statement is
\* left, by return, by falling off its end, or after the except clause.
Leaves(how) == "finally"

\* The description elements get_full_job_description_with_selenium may find.
DescriptionElements == {NoElem, Elem(<<L_lineA>>), Elem(<<L_twoLines>>)}

\* Pages the job link of process_single_structured_job may lead to: pages of
\* the Extractor's pool, and pages without a title whose main content is
\* empty or starts with a marker.
BarePages ==
    {[DefaultPage EXCEPT !.main = Elem(n), !.h1 = NoElem] :
        n \in {<<>>, << <<" ">> >>, <<L_FunctieEisen>>}}

SessionPages ==
    FeaturePages \cup ContactPages \cup NoMainPages \cup BarePages
    \cup {[DefaultPage EXCEPT !.main = Elem(ExampleNodes)],
          [DefaultPage EXCEPT !.main = Elem(<<L_twoLines>>)],
          [DefaultPage EXCEPT !.company = Elem(<<T_AcmeExample>>)]}

SessionIdle ==
    /\ ss_fn = "none"
    /\ ss_pc = "idle"
    /\ driver = "None"
    /\ ss_log = <<>>

\* ---- get_full_job_description_with_selenium ----
\* Line 420: webdriver.Chrome(...) stands before the try statement; if it
\* raises, the exception leaves the function and no session exists.
GfLaunch ==
    /\ ss_fn = "get_full_job_description_with_selenium"
    /\ ss_pc = "launch"
    /\ \/ driver' = "open" /\ ss_pc' = "get" /\ Logged(<<"launch">>)
       \/ driver' = driver /\ ss_pc' = "done" /\ Logged(<<"raised">>)
    /\ UNCHANGED <<ss_fn, adapterVars, extractVars, recordVars, batchVars>>

\* Lines 424-425: driver.get loads the page, or raises.
GfGet ==
    /\ ss_fn = "get_full_job_description_with_selenium"
    /\ ss_pc = "get"
    /\ Logged(<<"get">>)
    /\ ss_pc' \in {"page_source", "except"}
    /\ UNCHANGED <<ss_fn, driver, adapterVars, extractVars, recordVars, batchVars>>

\* Lines 428-467: page_source is read and parsed; the description element is
\* translated with translate_text(original_text) and the result returned, or
\* the element is missing and the failure record is returned.
GfRead ==
    /\ ss_fn = "get_full_job_description_with_selenium"
    /\ ss_pc = "page_source"
    /\ \E description_element \in DescriptionElements, reply \in Replies :
        LET original_text == GetText(description_element, <<"\n">>)
            r == TranslateText(CallText, original_text, reply)
        IN  IF ~description_element.found
            THEN Logged(<<"page_source", "success: False">>) /\ ss_pc' = Leaves("return")
            ELSE IF r.raised = "none"
            THEN Logged(<<"page_source", "success: True">>) /\ ss_pc' = Leaves("return")
            ELSE Logged(<<"page_source">>) /\ ss_pc' = "except"
    /\ UNCHANGED <<ss_fn, driver, adapterVars, extractVars, recordVars, batchVars>>

\* Lines 469-471: the error is printed and the failure record returned.
GfExcept ==
    /\ ss_fn = "get_full_job_description_with_selenium"
    /\ ss_pc = "except"
    /\ Logged(<<"Error processing", "success: False">>)
    /\ ss_pc' = Leaves("return")
    /\ UNCHANGED <<ss_fn, driver, adapterVars, extractVars, recordVars, batchVars>>

\* Lines 473-474: finally: driver.quit()
GfFinally ==
    /\ ss_fn = "get_full_job_description_with_selenium"
    /\ ss_pc = "finally"
    /\ driver' = "closed"
    /\ Logged(<<"quit">>)
    /\ ss_pc' = "done"
    /\ UNCHANGED <<ss_fn, adapterVars, extractVars, recordVars, batchVars>>

\* ---- diagnose_page_structure ----
\* Lines 537-545: the list page is fetched; without job links the function returns.
DgFetchList ==
    /\ ss_fn = "diagnose_page_structure"
    /\ ss_pc = "list"
    /\ \/ ss_pc' = "outer_except" /\ Logged(<<"RequestException">>)
       \/ ss_pc' = "done" /\ Logged(<<"No job links found">>)
       \/ ss_pc' = "detail" /\ Logged(<<"Testing URL">>)
    /\ UNCHANGED <<ss_fn, driver, adapterVars, extractVars, recordVars, batchVars>>

\* Lines 553-584: the detail page is fetched with requests and its selectors tested.
DgFetchDetail ==
    /\ ss_fn = "diagnose_page_structure"
    /\ ss_pc = "detail"
    /\ \/ ss_pc' = "outer_except" /\ Logged(<<"RequestException">>)
       \/ ss_pc' = "launch" /\ Logged(<<"selectors tested">>)
    /\ UNCHANGED <<ss_fn, driver, adapterVars, extractVars, recordVars, batchVars>>

\* Line 594: webdriver.Chrome(...) before the inner try statement.
DgLaunch ==
    /\ ss_fn = "diagnose_page_structure"
    /\ ss_pc = "launch"
    /\ \/ driver' = "open" /\ ss_pc' = "get" /\ Logged(<<"launch">>)
       \/ driver' = driver /\ ss_pc' = "outer_except" /\ Logged(<<"raised">>)
    /\ UNCHANGED <<ss_fn, adapterVars, extractVars, recordVars, batchVars>>

\* Lines 596-597: driver.get(test_url), or it raises and the finally clause
\* runs with the exception pending.
DgGet ==
    /\ ss_fn = "diagnose_page_structure"
    /\ ss_pc = "get"
    /\ Logged(<<"get">>)
    /\ ss_pc' \in {"page_source", "finally_raised"}
    /\ UNCHANGED <<ss_fn, driver, adapterVars, extractVars, recordVars, batchVars>>

\* Lines 599-611: driver.page_source is parsed and the selectors are tested.
DgRead ==
    /\ ss_fn = "diagnose_page_structure"
    /\ ss_pc = "page_source"
    /\ Logged(<<"page_source", "selectors tested">>)
    /\ ss_pc' = "finally"
    /\ UNCHANGED <<ss_fn, driver, adapterVars, extractVars, recordVars, batchVars>>

\* Lines 613-614: finally: driver.quit(); a pending exception then goes on
\* to the outer except clause.
DgFinally ==
    /\ ss_fn = "diagnose_page_structure"
    /\ ss_pc \in {"finally", "finally_raised"}
    /\ driver' = "closed"
    /\ Logged(<<"quit">>)
    /\ ss_pc' = IF ss_pc = "finally" THEN "save" ELSE "outer_except"
    /\ UNCHANGED <<ss_fn, adapterVars, extractVars, recordVars, batchVars>>

\* Lines 617-620: diagnostic_simple.html is written, then
\* f.write(driver.page_source) asks the driver, whose session has been quit,
\* for the page source: the command fails and the exception goes to the
\* outer except clause.
DgSave ==
    /\ ss_fn = "diagnose_page_structure"
    /\ ss_pc = "save"
    /\ \/ Logged(<<"OSError">>)
       \/ Logged(<<"diagnostic_simple.html", "page_source">>)
    /\ ss_pc' = "outer_except"
    /\ UNCHANGED <<ss_fn, driver, adapterVars, extractVars, recordVars, batchVars>>

\* Lines 626-627: Diagnosis failed.
DgExcept ==
    /\ ss_fn = "diagnose_page_structure"
    /\ ss_pc = "outer_except"
    /\ Logged(<<"Diagnosis failed">>)
    /\ ss_pc' = "done"
    /\ UNCHANGED <<ss_fn, driver, adapterVars, extractVars, recordVars, batchVars>>

\* ---- process_single_structured_job ----
\* Lines 992-996: driver = None, then webdriver.Chrome(...) inside the try.
PsLaunch ==
    /\ ss_fn = "process_single_structured_job"
    /\ ss_pc = "launch"
    /\ \/ driver' = "open" /\ ss_pc' = "list" /\ Logged(<<"launch">>)
       \/ driver' = driver /\ ss_pc' = "except" /\ Logged(<<"raised">>)
    /\ UNCHANGED <<ss_fn, adapterVars, extractVars, recordVars, batchVars>>

\* Lines 1004-1016: the list page is fetched; without job links the function returns.
PsFetchList ==
    /\ ss_fn = "process_single_structured_job"
    /\ ss_pc = "list"
    /\ \/ ss_pc' = "except" /\ Logged(<<"RequestException">>)
       \/ ss_pc' = Leaves("return") /\ Logged(<<"No job links found">>)
       \/ ss_pc' = "get" /\ Logged(<<"Processing job">>)
    /\ UNCHANGED <<ss_fn, driver, adapterVars, extractVars, recordVars, batchVars>>

\* Lines 1019-1020: driver.get(job_url), or it raises.
PsGet ==
    /\ ss_fn = "process_single_structured_job"
    /\ ss_pc = "get"
    /\ Logged(<<"get">>)
    /\ ss_pc' \in {"page_source", "except"}
    /\ UNCHANGED <<ss_fn, driver, adapterVars, extractVars, recordVars, batchVars>>

\* Lines 1022-1025: driver.page_source is parsed and
\* extract_structured_job_info(selenium_soup, job_url) is called.
PsExtractCall ==
    /\ ss_fn = "process_single_structured_job"
    /\ ss_pc = "page_source"
    /\ Logged(<<"page_source">>)
    /\ job_info' = NewJobInfo(page.url)
    /\ ex_pc' = ExtractOrder[1]
    /\ ss_pc' = "extract"
    /\ UNCHANGED <<ss_fn, driver, page, ex_ret, ex_steps, segVars, adapterVars, recordVars, batchVars>>

\* Lines 1027-1029: extraction returned None, the function returns.
PsExtractNone ==
    /\ ss_fn = "process_single_structured_job"
    /\ ss_pc = "extract"
    /\ ex_pc = "done" /\ ex_ret = "None"
    /\ Logged(<<"Failed to extract job information">>)
    /\ ss_pc' = Leaves("return")
    /\ UNCHANGED <<ss_fn, driver, adapterVars, extractVars, recordVars, batchVars>>

\* Lines 1031-1032: translate_structured_job_info(job_info) is called.
PsTranslateCall ==
    /\ ss_fn = "process_single_structured_job"
    /\ ss_pc = "extract"
    /\ ex_pc = "done" /\ ex_ret = "job_info"
    /\ job_before' = job_info
    /\ job_obj' = job_info
    /\ tr_pc' = "start"
    /\ ss_pc' = "translate"
    /\ UNCHANGED <<ss_fn, driver, ss_log, translated_own, tr_idx, translated_key,
                   content_to_translate, translated_sections, tr_passed, tr_requests,
                   tr_printed, adapterVars, extractVars, batchVars>>

\* Lines 1034-1035 with 836-938: print_structured_job_info(translated_job_info)
\* prints the report; line 931 reads job_info["translated_sections"] outside
\* the test of line 899, so a record without that key raises KeyError before
\* the report is complete.
PsReport ==
    /\ ss_fn = "process_single_structured_job"
    /\ ss_pc = "translate"
    /\ tr_pc = "done"
    /\ IF "translated_sections" \in DOMAIN TranslatedInfo
       THEN Logged(<<"ANALYSIS COMPLETE">>) /\ ss_pc' = "write"
       ELSE Logged(<<"KeyError">>) /\ ss_pc' = "except"
    /\ UNCHANGED <<ss_fn, driver, adapterVars, extractVars, recordVars, batchVars>>

\* Lines 1038-1044: the record is written to structured_job_analysis.json
\* and both records are printed as JSON; open or json.dump may raise.
PsWrite ==
    /\ ss_fn = "process_single_structured_job"
    /\ ss_pc = "write"
    /\ \/ Logged(<<"structured_job_analysis.json", "JSON DATA">>) /\ ss_pc' = Leaves("end")
       \/ Logged(<<"OSError">>) /\ ss_pc' = "except"
    /\ UNCHANGED <<ss_fn, driver, adapterVars, extractVars, recordVars, batchVars>>

\* Lines 1046-1047: the error is printed.
PsExcept ==
    /\ ss_fn = "process_single_structured_job"
    /\ ss_pc = "except"
    /\ Logged(<<"Error">>)
    /\ ss_pc' = Leaves("except")
    /\ UNCHANGED <<ss_fn, driver, adapterVars, extractVars, recordVars, batchVars>>

\* Lines 1048-1051: finally: if driver: driver.quit()
PsFinally ==
    /\ ss_fn = "process_single_structured_job"
    /\ ss_pc = "finally"
    /\ IF driver = "open"
       THEN driver' = "closed" /\ Logged(<<"quit", "Browser closed">>)
       ELSE UNCHANGED <<driver, ss_log>>
    /\ ss_pc' = "done"
    /\ UNCHANGED <<ss_fn, adapterVars, extractVars, recordVars, batchVars>>

\* The steps of extract_structured_job_info and of
\* translate_structured_job_info run inside process_single_structured_job.
\* The Extractor always stores job_details["features"], so the branch of
\* line 798 without features is not taken here.
NextSession ==
    \/ GfLaunch \/ GfGet \/ GfRead \/ GfExcept \/ GfFinally
    \/ DgFetchList \/ DgFetchDetail \/ DgLaunch \/ DgGet \/ DgRead \/ DgFinally
    \/ DgSave \/ DgExcept
    \/ PsLaunch \/ PsFetchList \/ PsGet \/ PsExtractCall \/ PsExtractNone
    \/ PsTranslateCall \/ PsReport \/ PsWrite \/ PsExcept \/ PsFinally
    \/ ExMainMissing \/ ExMain \/ ExTitle \/ ExCompany \/ ExFeatures \/ ExContact
    \/ ExSegment \/ ExLineBlank \/ ExLineMarker \/ ExLineAppend \/ ExFinish
    \/ TrCopy \/ TrNameAbsent \/ TrNameRaises \/ TrTitleAbsent \/ TrTitleRaises
    \/ TrFeatureKey \/ TrFeatureValueRaises \/ TrFeaturesStore
    \/ TrSectionBlank \/ TrSectionRaises \/ TrReturn

(*************************************************************************)
(* Specifications: one per component, each started on every input of its *)
(* pool while the other components stay idle.                            *)
(*************************************************************************)
InitAdapter ==
    /\ AdapterIdle
    /\ tt_call \in CallShapes
    /\ tt_text \in TextPool
    /\ ExtractorIdle /\ page = DefaultPage /\ ex_pc = "idle" /\ job_info = NewJobInfo(page.url)
    /\ RecordIdle
    /\ BatchIdle /\ SessionIdle

SpecAdapter == InitAdapter /\ [][NextAdapter]_vars

InitExtract ==
    /\ page \in Pages
    /\ ex_pc = ExtractOrder[1]
    /\ job_info = NewJobInfo(page.url)
    /\ ExtractorIdle
    /\ AdapterIdle /\ tt_call = CallText /\ tt_text = <<>>
    /\ RecordIdle
    /\ BatchIdle /\ SessionIdle

SpecExtract == InitExtract /\ [][NextExtract]_vars

InitRecord ==
    /\ job_before \in JobRecords
    /\ job_obj = job_before
    /\ tr_pc = "start"
    /\ translated_own = EmptyDict
    /\ tr_idx = 1
    /\ translated_key = NoValue
    /\ content_to_translate = NoValue
    /\ translated_sections = EmptyDict
    /\ tr_passed = <<>>
    /\ tr_requests = 0
    /\ tr_printed = <<>>
    /\ AdapterIdle /\ tt_call = CallText /\ tt_text = <<>>
    /\ ExtractorIdle /\ page = DefaultPage /\ ex_pc = "idle" /\ job_info = NewJobInfo(page.url)
    /\ BatchIdle /\ SessionIdle

SpecRecord == InitRecord /\ [][NextRecord]_vars

InitBatch ==
    /\ bt_fn \in BatchFunctions
    /\ bt_limit \in IF bt_fn = "stress_test_translation" THEN {0}
                    ELSE IF bt_fn = "scrape_multiple_pages" THEN 0..MaxPages
                    ELSE 0..MaxJobs
    /\ bt_page = 1
    /\ bt_pc = IF bt_fn = "stress_test_translation" THEN "fetch"
               ELSE LoopHead(bt_fn, 1, 0, bt_limit)
    /\ bt_cards = <<>>
    /\ bt_idx = 1
    /\ bt_count = 0
    /\ bt_log = <<>>
    /\ AdapterIdle /\ tt_call = CallText /\ tt_text = <<>>
    /\ ExtractorIdle /\ page = DefaultPage /\ ex_pc = "idle" /\ job_info = NewJobInfo(page.url)
    /\ RecordIdle
    /\ SessionIdle

SpecBatch == InitBatch /\ [][NextBatch]_vars

\* The batch loops as a sequential program that keeps running: every call of
\* a collaborator returns or raises, and the statement that follows is run.
SpecBatchFair == InitBatch /\ [][NextBatchOn]_vars /\ WF_vars(NextBatchOn)

\* The page is the one the job link leads to.
InitSession ==
    /\ ss_fn \in SessionFunctions
    /\ ss_pc = IF ss_fn = "diagnose_page_structure" THEN "list" ELSE "launch"
    /\ driver = "None"
    /\ ss_log = <<>>
    /\ page \in IF ss_fn = "process_single_structured_job" THEN SessionPages
                ELSE {DefaultPage}
    /\ AdapterIdle /\ tt_call = CallText /\ tt_text = <<>>
    /\ ExtractorIdle /\ ex_pc = "idle" /\ job_info = NewJobInfo(page.url)
    /\ RecordIdle
    /\ BatchIdle

SpecSession == InitSession /\ [][NextSession]_vars

(*************************************************************************)
(* Properties of the Extractor.                                          *)
(*************************************************************************)
Returned == ex_pc = "done" /\ ex_ret = "job_info"

\* The non-empty trimmed lines of a text, in order.
TrimmedLines(text) ==
    LET raw == Split(text, "\n")
        NonEmpty(l) == l # <<>>
    IN  SelectSeq([i \in 1..Len(raw) |-> Strip(raw[i])], NonEmpty)

\* The lines a section stores.
StoredLines(text) == IF text = <<>> THEN <<>> ELSE Split(text, "\n")

SeqToBag(s) ==
    [x \in {s[i] : i \in 1..Len(s)} |-> Cardinality({i \in 1..Len(s) : s[i] = x})]

\* The lines of all five sections, as a multiset.
StoredBag(secs) ==
    SeqToBag(StoredLines(secs["job_description"]) \o StoredLines(secs["requirements"])
             \o StoredLines(secs["what_we_offer"]) \o StoredLines(secs["employment_conditions"])
             \o StoredLines(secs["application_process"]))

\* The section of every run of lines: a non-empty preamble counts for
\* job_description, every marker line opens a run of the section it matches.
RunSections(lines) ==
    LET Marker(l) == MatchSection(l) # NoSection
        markers == SelectSeq(lines, Marker)
        opened == [i \in 1..Len(markers) |-> MatchSection(markers[i])]
    IN  IF lines # <<>> /\ MatchSection(lines[1]) = NoSection
        THEN <<"job_description">> \o opened
        ELSE opened

NoSectionTwice(lines) ==
    LET runs == RunSections(lines)
    IN  Cardinality({runs[i] : i \in 1..Len(runs)}) = Len(runs)

\* C1 (as stated): after extract_structured_job_info returns, the lines
\* stored in the five sections are exactly the non-empty trimmed lines of
\* raw_content, each once, also when a section is opened more than once.
C1_ConservesLinesAlways ==
    Returned =>
        LET lines == TrimmedLines(job_info["raw_content"])
        IN  StoredBag(job_info["structured_content"]) = SeqToBag(lines)

\* C1 (amended): when no section is opened by more than one run of lines,
\* the lines stored in the five sections are exactly the non-empty trimmed
\* lines of raw_content, each once.
C1_ConservesLinesOnce ==
    Returned =>
        LET lines == TrimmedLines(job_info["raw_content"])
        IN  NoSectionTwice(lines) =>
                StoredBag(job_info["structured_content"]) = SeqToBag(lines)

\* A run that returned with three sections filled, none opened twice.
C1_Witness ==
    /\ Returned
    /\ LET lines == TrimmedLines(job_info["raw_content"])
       IN  /\ Len(lines) > 3
           /\ NoSectionTwice(lines)
           /\ Len(RunSections(lines)) = 3

LaterSteps == {"title", "company", "features", "contact", "segment"}

\* C9: when the page has no main content element the function returns None
\* and performs none of the title, company, features, contact and
\* segmentation steps.
C9_NotFoundStopsExtraction ==
    ~page.main.found =>
        /\ ex_steps \cap LaterSteps = {}
        /\ job_info = NewJobInfo(page.url)
        /\ sections = EmptySections /\ seg_lines = <<>> /\ current_content = <<>>
        /\ ex_ret # "job_info"
        /\ ex_pc = "done" => ex_ret = "None"

\* None was returned for a page that has a title, company info, a feature
\* and a contact block but no main content.
C9_Witness ==
    /\ ex_pc = "done" /\ ex_ret = "None"
    /\ ~page.main.found
    /\ page.h1.found /\ page.company.found
    /\ page.features # <<>> /\ page.contacts # <<>>

\* The company text as the code reads it.
CompanyText == GetText(page.company, <<>>)

Dots(t) == {i \in 1..Len(t) : t[i] = MIDDOT}

\* The k-th part of t between middle dots (k = 1, 2, 3), for a text with at
\* least two dots.
DotPart(t, k) ==
    LET d1 == SetMin(Dots(t))
        d2 == SetMin(Dots(t) \ {d1})
        rest == Dots(t) \ {d1, d2}
        d3 == IF rest = {} THEN Len(t) + 1 ELSE SetMin(rest)
    IN  CASE k = 1 -> SubSeq(t, 1, d1 - 1)
          [] k = 2 -> SubSeq(t, d1 + 1, d2 - 1)
          [] k = 3 -> SubSeq(t, d2 + 1, d3 - 1)

\* u is s without the whitespace at its two ends.
IsTrimOf(u, s) ==
    \E a, b \in 0..Len(s) :
        /\ a + b <= Len(s)
        /\ \A i \in 1..a : s[i] \in Whitespace
        /\ \A i \in (Len(s) - b + 1)..Len(s) : s[i] \in Whitespace
        /\ u = SubSeq(s, a + 1, Len(s) - b)
        /\ u = <<>> \/ (u[1] \notin Whitespace /\ u[Len(u)] \notin Whitespace)

\* v is u with the characters of every occurrence of lit deleted (lit does
\* not overlap itself).
IsWithout(v, u, lit) ==
    LET starts == {k \in 1..(Len(u) - Len(lit) + 1) : SubSeq(u, k, k + Len(lit) - 1) = lit}
        Covered(i) == \E k \in starts : k <= i /\ i < k + Len(lit)
        Kept(i) == ~Covered(i)
        idx == SelectSeq([i \in 1..Len(u) |-> i], Kept)
    IN  v = [n \in 1..Len(idx) |-> u[idx[n]]]

\* C10: with fewer than three parts none of name, location, posting_date is
\* set; with three or more all three are set, to the trimmed first part, the
\* trimmed second part without 'Standplaats: ', and the trimmed third part;
\* the example of the specification gives Acme BV, Amsterdam, 3 dagen geleden.
C10_CompanyAllOrNothing ==
    (Returned /\ page.company.found) =>
        LET ci == job_info["company_info"]
            t == CompanyText
        IN  /\ Cardinality(Dots(t)) < 2 => DOMAIN ci = {}
            /\ Cardinality(Dots(t)) >= 2 =>
                /\ DOMAIN ci = {"name", "location", "posting_date"}
                /\ IsTrimOf(ci["name"], DotPart(t, 1))
                /\ \E p \in {Strip(DotPart(t, 2))} :
                      IsTrimOf(p, DotPart(t, 2)) /\ IsWithout(ci["location"], p, S_Standplaats)
                /\ IsTrimOf(ci["posting_date"], DotPart(t, 3))
            /\ t = T_AcmeExample =>
                /\ ci["name"] = <<"A","c","m","e"," ","B","V">>
                /\ ci["location"] = <<"A","m","s","t","e","r","d","a","m">>
                /\ ci["posting_date"] = <<"3"," ","d","a","g","e","n"," ","g","e","l","e","d","e","n">>

\* A record was returned for the example of the specification.
C10_Witness ==
    /\ Returned
    /\ page.company.found
    /\ CompanyText = T_AcmeExample
    /\ DOMAIN job_info["company_info"] = {"name", "location", "posting_date"}

\* A record was returned for a company text with fewer than three parts.
C10_WitnessFewParts ==
    /\ Returned
    /\ page.company.found
    /\ Cardinality(Dots(CompanyText)) = 1

\* The sections, by their place in the pattern table, one of whose patterns
\* is found in the line, letter case ignored.
MatchingSections(line) ==
    LET lowered == Lower(line)
    IN  {i \in 1..Len(section_patterns) :
            \E p \in 1..Len(LoweredPatterns[i]) :
                \E alt \in LoweredPatterns[i][p] : Contains(lowered, alt)}

IsMarker(line) == MatchingSections(line) # {}

\* The for loop is at a line that matches a pattern, and steps over it.
MarkerStep ==
    /\ ex_pc = "lines"
    /\ seg_idx <= Len(seg_lines)
    /\ seg_idx' = seg_idx + 1
    /\ IsMarker(Strip(seg_lines[seg_idx]))

\* The text a section must hold in the end: the lines of its last run, from
\* the line that opened the run up to the next marker line, joined by
\* newlines; hits[i] are the sections whose patterns match line i.
LastRunText(lines, hits, name) ==
    LET Opens(i) == IF hits[i] # {}
                    THEN section_patterns[SetMin(hits[i])].name = name
                    ELSE i = 1 /\ name = "job_description"
        starts == {i \in 1..Len(lines) : Opens(i)}
    IN  IF starts = {} THEN <<>>
        ELSE LET first == SetMax(starts)
                 later == {i \in (first + 1)..Len(lines) : hits[i] # {}}
                 last == IF later = {} THEN Len(lines) ELSE SetMin(later) - 1
             IN  Join(SubSeq(lines, first, last), <<"\n">>)

\* C14: on a line that matches a section pattern the buffered lines, joined
\* by newlines, replace the text of the current section, the matched section
\* becomes current and the new buffer holds the matching line alone; the
\* lines Functieomschrijving, line A, Functie-eisen, line B give
\* job_description and requirements two lines each and leave the other
\* sections empty; in the end every section holds its last run of lines only.
C14_MarkerLineStep ==
    /\ [][MarkerStep =>
            /\ sections' = IF current_content = <<>> THEN sections
                           ELSE [sections EXCEPT ![current_section] =
                                    Join(current_content, <<"\n">>)]
            /\ current_content' = <<Strip(seg_lines[seg_idx])>>
            /\ \E i \in MatchingSections(Strip(seg_lines[seg_idx])) :
                    current_section' = section_patterns[i].name]_vars
    /\ [](Returned =>
            LET lines == TrimmedLines(job_info["raw_content"])
                stored == job_info["structured_content"]
            IN  /\ lines = ExampleNodes =>
                    /\ stored["job_description"] = L_Functieomschrijving \o <<"\n">> \o L_lineA
                    /\ stored["requirements"] = L_FunctieEisen \o <<"\n">> \o L_lineB
                    /\ stored["what_we_offer"] = <<>>
                    /\ stored["employment_conditions"] = <<>>
                    /\ stored["application_process"] = <<>>
                /\ LET hits == [i \in 1..Len(lines) |-> MatchingSections(lines[i])]
                   IN  \A name \in DOMAIN stored :
                            stored[name] = LastRunText(lines, hits, name))

\* The function returned for a text in which a section is entered twice.
C14_Witness ==
    /\ Returned
    /\ LET lines == TrimmedLines(job_info["raw_content"])
       IN  /\ ~NoSectionTwice(lines)
           /\ Len(lines) = 3
           /\ IsMarker(lines[1]) /\ ~IsMarker(lines[2]) /\ IsMarker(lines[3])

\* C15: when no line of raw_content matches a section pattern, job_description
\* holds all non-empty trimmed lines in document order, joined by newlines,
\* and the other four sections are empty.
C15_NoMarkerAllInDescription ==
    Returned =>
        LET lines == TrimmedLines(job_info["raw_content"])
            stored == job_info["structured_content"]
        IN  (\A i \in 1..Len(lines) : ~IsMarker(lines[i])) =>
                /\ stored["job_description"] = Join(lines, <<"\n">>)
                /\ \A name \in DOMAIN stored : name # "job_description" => stored[name] = <<>>

\* The function returned for a text of several lines, none of them a marker,
\* with blank lines in between.
C15_Witness ==
    /\ Returned
    /\ LET lines == TrimmedLines(job_info["raw_content"])
       IN  /\ Len(lines) >= 3
           /\ \A i \in 1..Len(lines) : ~IsMarker(lines[i])
           /\ Len(Split(job_info["raw_content"], "\n")) > Len(lines)

\* C16: a line that matches patterns of more than one section opens the
\* earliest of them in the order job_description, requirements,
\* what_we_offer, employment_conditions, application_process, whatever the
\* current section is and wherever in the line the patterns match.
C16_FirstMatchWins ==
    [][MarkerStep =>
        current_section' = SectionNames[SetMin(MatchingSections(Strip(seg_lines[seg_idx])))]]_vars

\* The line "Salary requirements", in which the pattern of
\* employment_conditions matches to the left of the pattern of requirements,
\* has opened requirements after another section had been opened.
C16_Witness ==
    /\ ex_pc = "lines"
    /\ seg_idx = 3
    /\ IsMarker(Strip(seg_lines[1]))
    /\ Cardinality(MatchingSections(Strip(seg_lines[2]))) > 1
    /\ Strip(seg_lines[2]) = L_SalaryRequirements
    /\ current_section = "requirements"
    /\ current_content = <<L_SalaryRequirements>>

\* The lines of raw_content that come before the first line matching a
\* pattern, joined by newlines: what job_description holds when no line
\* opens it again.
Preamble(lines) ==
    LET markers == {i \in 1..Len(lines) : IsMarker(lines[i])}
        last == IF markers = {} THEN Len(lines) ELSE SetMin(markers) - 1
    IN  Join(SubSeq(lines, 1, last), <<"\n">>)

\* C22: in the final structured_content, within the text stored for a
\* section no line but the first matches any section pattern, and every
\* non-empty section starts with a line that matches a pattern of that same
\* section, unless it is job_description holding the lines that came before
\* the first marker; while the lines are processed, current_section is one
\* of the five section names.
C22_MarkerPositions ==
    /\ ex_pc = "lines" => \E k \in 1..Len(SectionNames) : current_section = SectionNames[k]
    /\ Returned =>
            LET lines == TrimmedLines(job_info["raw_content"])
                stored == job_info["structured_content"]
            IN  \A name \in DOMAIN stored :
                    LET held == Split(stored[name], "\n")
                    IN  /\ \A i \in 2..Len(held) : ~IsMarker(held[i])
                        /\ stored[name] # <<>> =>
                                \/ \E k \in MatchingSections(held[1]) :
                                        section_patterns[k].name = name
                                \/ /\ name = "job_description"
                                   /\ stored[name] = Preamble(lines)

\* The function returned with job_description holding lines that came before
\* the first marker, and with another section of a marker line followed by
\* an unmarked one.
C22_Witness ==
    /\ Returned
    /\ LET lines == TrimmedLines(job_info["raw_content"])
           stored == job_info["structured_content"]
       IN  /\ stored["job_description"] # <<>>
           /\ stored["job_description"] = Preamble(lines)
           /\ \E name \in DOMAIN stored :
                LET held == Split(stored[name], "\n")
                IN  /\ name # "job_description"
                    /\ Len(held) >= 2
                    /\ IsMarker(held[1])

\* The text of a contact block, as line 689 reads it.
ContactText(block) == GetText(block, S_ContactSep)

HasAdres(block) == Contains(ContactText(block), S_Adres)

HasContactgegevens(block) == Contains(ContactText(block), S_Contactgegevens)

ContactBlocksOf(p) == {p.contacts[i] : i \in 1..Len(p.contacts)}

\* C17 (as stated): a block containing Adres populates address, a block
\* containing Contactgegevens populates contact_details also when it contains
\* Adres, and blocks containing neither leave contact_info unchanged.
C17_ContactBothPopulated ==
    Returned =>
        LET blocks == ContactBlocksOf(page)
            info == job_info["contact_info"]
        IN  /\ \A b \in blocks : HasAdres(b) => "address" \in DOMAIN info
            /\ \A b \in blocks : HasContactgegevens(b) => "contact_details" \in DOMAIN info
            /\ "address" \in DOMAIN info => \E b \in blocks : HasAdres(b)
            /\ "contact_details" \in DOMAIN info => \E b \in blocks : HasContactgegevens(b)

\* C17 (amended): a block containing Adres populates address and nothing
\* else; a block containing Contactgegevens and not Adres populates
\* contact_details; blocks containing neither leave contact_info unchanged.
C17_ContactAdresFirst ==
    Returned =>
        LET blocks == ContactBlocksOf(page)
            info == job_info["contact_info"]
        IN  /\ \A b \in blocks : HasAdres(b) => "address" \in DOMAIN info
            /\ \A b \in blocks : (HasContactgegevens(b) /\ ~HasAdres(b)) =>
                    "contact_details" \in DOMAIN info
            /\ "address" \in DOMAIN info => \E b \in blocks : HasAdres(b)
            /\ "contact_details" \in DOMAIN info =>
                    \E b \in blocks : HasContactgegevens(b) /\ ~HasAdres(b)

\* The function returned for a page whose only contact block contains both
\* Contactgegevens and Adres.
C17_Witness ==
    /\ Returned
    /\ Len(page.contacts) = 1
    /\ HasAdres(page.contacts[1]) /\ HasContactgegevens(page.contacts[1])
    /\ DOMAIN job_info["contact_info"] = {"address"}

(*************************************************************************)
(* Properties of the Translator Adapter.                                 *)
(*************************************************************************)
AllWhitespace(text) == \A i \in 1..Len(text) : text[i] \in Whitespace

PassesText(call) == call.positional >= 1

\* C2: for a text that is empty or all whitespace, translate_text returns
\* the text unchanged and issues no remote request during the invocation.
C2_BlankReturnedWithoutCall ==
    (PassesText(tt_call) /\ AllWhitespace(tt_text)) =>
        /\ tt_requests = 0
        /\ tt_pc # "requesting"
        /\ tt_pc = "returned" => (tt_ret = tt_text /\ tt_raised = "none" /\ ~tt_reported)

\* A whitespace-only text was returned.
C2_Witness ==
    /\ tt_pc = "returned"
    /\ PassesText(tt_call)
    /\ tt_text = <<" ", "\n">>
    /\ tt_ret = tt_text

\* C3: for a non-blank text whose remote request fails (transport error,
\* API error, no usable first choice), translate_text returns the original
\* text, reports the error and lets no exception reach the caller.
C3_DegradeToOriginal ==
    (tt_pc = "returned" /\ ~AllWhitespace(tt_text) /\ tt_reply.kind \in ReplyFailures) =>
        /\ tt_ret = tt_text
        /\ tt_reported
        /\ tt_raised = "none"

\* A request for a non-blank text came back without a first choice.
C3_Witness ==
    /\ tt_pc = "returned"
    /\ ~AllWhitespace(tt_text)
    /\ tt_reply.kind = "empty_choices"
    /\ tt_requests = 1

(*************************************************************************)
(* Properties of the record translation orchestrator.                    *)
(*************************************************************************)
Done == tr_pc = "done"

Has(d, k) == k \in DOMAIN d

\* The sections of the input whose text is not empty.
FilledSections == {n \in DOMAIN EmptySections : job_before["structured_content"][n] # <<>>}

\* len(text.split()): the maximal runs of non-whitespace characters.
WordCount(text) ==
    Cardinality({i \in 1..Len(text) :
        text[i] \notin Whitespace /\ (i = 1 \/ text[i - 1] \in Whitespace)})

Passed(text) == \E i \in 1..Len(tr_passed) : tr_passed[i] = text

\* "Error translating job info: ..." was printed by the except clause.
OrchestratorFailed ==
    \E i \in 1..Len(tr_printed) : tr_printed[i][1] = "Error translating job info"

\* The record is one the Extractor builds: job_details always has features.
FromExtractor == Has(job_before["job_details"], "features")

\* C4: for a record produced by the Extractor, translate_structured_job_info
\* never fails as a unit: the record it returns has a translated counterpart
\* for the company name, the title, every feature and every non-empty
\* section that is present.
C4_NeverFailsAsUnit ==
    (Done /\ FromExtractor) =>
        /\ Has(job_before["company_info"], "name") => Has(TranslatedInfo["company_info"], "name_en")
        /\ Has(job_before["job_details"], "title") => Has(TranslatedInfo["job_details"], "title_en")
        /\ Has(job_before["job_details"], "features") =>
                /\ Has(TranslatedInfo["job_details"], "features_translated")
                /\ Cardinality(DOMAIN TranslatedInfo["job_details"]["features_translated"])
                      = Len(job_before["job_details"]["features"])
        /\ Has(TranslatedInfo, "translated_sections")
        /\ FilledSections \subseteq DOMAIN TranslatedInfo["translated_sections"]
        /\ ~OrchestratorFailed

\* C5: the returned record holds, for exactly the sections with non-empty
\* text, an entry (original, translated, word_count), and title_en and
\* name_en whenever title and name are present.
C5_TranslatedRecordShape ==
    Done =>
        /\ Has(TranslatedInfo, "translated_sections")
        /\ DOMAIN TranslatedInfo["translated_sections"] = FilledSections
        /\ \A n \in FilledSections :
              /\ DOMAIN TranslatedInfo["translated_sections"][n]
                    = {"original", "translated", "word_count"}
              /\ TranslatedInfo["translated_sections"][n]["original"]
                    = job_before["structured_content"][n]
        /\ Has(job_before["job_details"], "title") => Has(TranslatedInfo["job_details"], "title_en")
        /\ Has(job_before["company_info"], "name") => Has(TranslatedInfo["company_info"], "name_en")

\* C6: a record with no non-empty section, whatever its name, title and
\* features, comes back with translated_sections present and empty and with
\* no error raised or reported.
C6_NoSectionsNoError ==
    (Done /\ FilledSections = {}) =>
        /\ Has(TranslatedInfo, "translated_sections")
        /\ TranslatedInfo["translated_sections"] = EmptyDict
        /\ tr_printed = <<>>

\* C7: a section body longer than 3000 characters is handed to the adapter
\* as its first 3000 characters (a shorter one whole), while the stored
\* original is the whole body and word_count counts the words of the whole body.
C7_TruncatedToLimit ==
    (Done /\ \E n \in FilledSections : Len(job_before["structured_content"][n]) > TruncateLimit) =>
        \A n \in FilledSections :
            LET body == job_before["structured_content"][n]
            IN  /\ Len(body) > TruncateLimit => Passed(SubSeq(body, 1, TruncateLimit))
                /\ Len(body) <= TruncateLimit => Passed(body)
                /\ Has(TranslatedInfo, "translated_sections")
                /\ Has(TranslatedInfo["translated_sections"], n)
                /\ TranslatedInfo["translated_sections"][n]["original"] = body
                /\ TranslatedInfo["translated_sections"][n]["word_count"] = WordCount(body)

\* C8: when translate_structured_job_info has returned, the record passed
\* in, nested company_info and job_details included, is as it was before.
C8_InputUntouched ==
    Done => job_obj = job_before

(*************************************************************************)
(* Properties of the Translator Adapter: remote requests.                *)
(*************************************************************************)
\* C12: an invocation of translate_text with a text that is not blank issues
\* exactly one remote API request, whether the request succeeds or fails; a
\* failed request is not issued again.
C12_OneRequestPerInvocation ==
    (PassesText(tt_call) /\ Binds(tt_call) /\ ~AllWhitespace(tt_text)) =>
        /\ tt_requests <= 1
        /\ tt_pc \in {"requesting", "returned"} => tt_requests = 1
        /\ tt_reply.kind \in ReplyFailures => tt_pc = "returned" /\ tt_requests = 1

\* The invocation has returned after its one request failed.
C12_Witness ==
    /\ tt_pc = "returned"
    /\ ~AllWhitespace(tt_text)
    /\ tt_reply.kind = "transport_error"
    /\ tt_requests = 1
    /\ tt_ret = tt_text

(*************************************************************************)
(* Properties of the batch loops.                                        *)
(*************************************************************************)
\* The places in bt_log of the events of one kind.
EventsOf(ev) == {i \in 1..Len(bt_log) : bt_log[i].ev = ev}

FailedFetches == {i \in EventsOf("fetch") : bt_log[i].outcome \in FetchFailures}

PagedFunctions == {"scrape_multiple_pages", "run_large_scale_translation_test"}

\* C13: in scrape_multiple_pages and run_large_scale_translation_test, after
\* the fetch of a page failed no card of that page is processed, the page is
\* not fetched again, the fetch that follows is for the next page number, and
\* the run does not end before that fetch unless the failed page was the last
\* one of scrape_multiple_pages.
C13_FetchFailureSkipsPage ==
    bt_fn \in PagedFunctions =>
        \A i \in FailedFetches :
            LET failed == bt_log[i].page
                later == {j \in EventsOf("fetch") : j > i}
            IN  /\ \A j \in EventsOf("translate") : bt_log[j].page # failed
                /\ \A j \in EventsOf("fetch") : j # i => bt_log[j].page # failed
                /\ later # {} => bt_log[SetMin(later)].page = failed + 1
                /\ (bt_pc = "done" /\ later = {}) =>
                        bt_fn = "scrape_multiple_pages" /\ failed = bt_limit

\* run_large_scale_translation_test failed to fetch page 1 and has gone on
\* to the cards of page 2.
C13_Witness ==
    /\ bt_fn = "run_large_scale_translation_test"
    /\ 1 \in FailedFetches
    /\ bt_log[1].page = 1
    /\ \E j \in EventsOf("translate") : bt_log[j].page = 2

\* C18: in the three batch loops, between any two translation attempts a
\* sleep takes place, also when the earlier attempt raised.
C18_SleepBetweenAttempts ==
    \A i \in EventsOf("translate") : \A j \in EventsOf("translate") :
        i < j => \E k \in EventsOf("sleep") : i < k /\ k < j

\* Two attempts, the first of which raised, one on each side of a page
\* boundary.
C18_Witness ==
    \E i \in EventsOf("translate") : \E j \in EventsOf("translate") :
        /\ i < j
        /\ bt_log[i].outcome = "TypeError"
        /\ bt_log[i].page < bt_log[j].page

\* The run ended on a page that arrived without job cards (lines 345-347).
EndedOnEmptyPage ==
    /\ bt_cards = <<>>
    /\ \/ bt_page > MaxPages
       \/ /\ bt_log # <<>>
          /\ bt_log[Len(bt_log)].ev = "fetch"
          /\ bt_log[Len(bt_log)].outcome = "ok"

\* C21: run_large_scale_translation_test terminates for every
\* max_jobs_to_translate >= 0 and every behaviour of the fetch and
\* translation collaborators: its page loop eventually exits, and it exits
\* either because translated_jobs_count reached max_jobs_to_translate or
\* because a page with no job cards was seen; translated_jobs_count never
\* exceeds max_jobs_to_translate.
C21_PageLoopTerminates ==
    /\ <>(bt_fn = "run_large_scale_translation_test" => bt_pc = "done")
    /\ [](bt_fn = "run_large_scale_translation_test" =>
            /\ bt_count <= bt_limit
            /\ bt_pc = "done" => (bt_count >= bt_limit \/ EndedOnEmptyPage))

(*************************************************************************)
(* Properties of the functions that launch a browser session.            *)
(*************************************************************************)
LogHas(event) == \E i \in 1..Len(ss_log) : ss_log[i] = event

Quits == Cardinality({i \in 1..Len(ss_log) : ss_log[i] = "quit"})

\* C11: in each of the three functions, a run that created a session calls
\* driver.quit() exactly once before the function ends, by normal return, by
\* early return or after an error: quit is never called twice, the function
\* is not left while the session is open, and once it is left the session
\* has been quit once.
C11_SessionReleased ==
    /\ Quits <= 1
    /\ driver = "open" => ss_pc # "done"
    /\ (ss_pc = "done" /\ LogHas("launch")) => (Quits = 1 /\ driver = "closed")

\* process_single_structured_job has ended by the early return after
\* extraction gave None, with the session quit.
C11_Witness ==
    /\ ss_fn = "process_single_structured_job"
    /\ ss_pc = "done"
    /\ LogHas("Failed to extract job information")
    /\ Quits = 1
    /\ driver = "closed"

\* C19: in process_single_structured_job, once extraction has returned a
\* record, the record translate_structured_job_info returns carries the key
\* translated_sections, and the report is printed and the JSON file written
\* before the browser is closed, unless writing the file itself fails.
C19_ReportAndFileBeforeClose ==
    ss_fn = "process_single_structured_job" =>
        /\ tr_pc = "done" => "translated_sections" \in DOMAIN TranslatedInfo
        /\ (driver = "closed" /\ Returned) =>
                /\ LogHas("ANALYSIS COMPLETE")
                /\ LogHas("structured_job_analysis.json") \/ LogHas("OSError")

\* C20: in each of the three functions, no operation on the driver takes
\* place after driver.quit().
C20_NoUseAfterQuit ==
    \A i \in 1..Len(ss_log) : \A j \in 1..Len(ss_log) :
        (i < j /\ ss_log[i] = "quit") => ss_log[j] \notin DriverOps

=============================================================================
